---- MODULE Spec2Model ----
(***************************************************************************)
(* Model of the Venture Design bulk updaters of this repository.           *)
(*                                                                         *)
(* Spec      the four ledger-based updaters (robust_venture_fix,           *)
(*           ultra_robust_venture_fix, persistent_venture_fix,             *)
(*           improved_venture_fix): page enumeration, the per-item image   *)
(*           swap and price sub-steps, the progress ledger in memory and   *)
(*           on disk, process kills and relaunches.                        *)
(*                                                                         *)
(* One step of Spec is one remote call or one write of the progress file,  *)
(* together with the local code that follows it up to the next one; a      *)
(* kill may fall between any two steps.                                    *)
(*                                                                         *)
(* SpecRerun robust_venture_fix and the two plan-then-apply scripts        *)
(*           (final_venture_fix, venture_design_updates), each run to      *)
(*           completion and started again.                                 *)
(* SpecRate  rate_limit_check of the ultra updater against a clock.        *)
(* SpecRetry one execution of each retry loop (make_request_persistent,    *)
(*           graphql_request under tenacity, swap_images_robust).          *)
(***************************************************************************)
EXTENDS Integers, Sequences, FiniteSets, TLC

\* ------------------------------------------------------------------ bounds
MaxItems == 2
MaxImages == 4
MaxRuns == 2
PageSize == 1

\* --------------------------------------------------------------- constants
SaveEvery == 5
UltraMaxRetries == 3

AllIds == <<"p1", "p2", "p3", "p4">>
Catalog == SubSeq(AllIds, 1, MaxItems)
Items == {Catalog[i] : i \in 1..MaxItems}
NoItem == "none"

Scripts == {"robust", "ultra", "persistent", "improved"}

ImageLists == {<<1>>, <<1, 2, 3>>}

VARIABLES
    script,        \* which updater is being run
    origImages,    \* image order of every product before any run
    hasCost,       \* product has a first variant with a unit cost amount
    remoteImages,  \* the shop: current image order of every product
    remotePrice,   \* the shop: "orig" or the multiplier last written
    disk,          \* the progress file
    mem,           \* the in-memory progress sets of the running process
    dryRun,        \* the running process was started without --apply
    pc,            \* position of the running process
    products,      \* products enumerated so far
    cursor,        \* pagination cursor, 0 is None
    remaining,     \* products left after filtering
    idx,           \* index into remaining of the current product
    imgOk,         \* results["images"] / image_success / success
    priceOk,       \* results["price"] / price_success
    resp1ok,       \* resp1.ok of the first position write
    attempt,       \* loop variable of the ultra retry loops
    snap,          \* <<first_img id, second_img id>> read by the GET
    runNo,         \* number of launches so far
    loaded,        \* processed set loaded by load_progress of this run
    calls,         \* per-product remote calls issued by the running process
    lastCall,      \* the remote call issued by the last step, if any
    clean,         \* no failing response, dry run or reset so far
    swaps,         \* completed swap invocations per product, capped at 2
    partial,       \* per product, the sub-step that failed alone when last processed
    prevPartial,   \* partial as it was when this run was launched
    killedProcessed, \* in-memory processed set at the last kill
    to_swap,       \* planned swaps: <<product, first image, second image>>
    to_update,     \* planned kostpris writes: products whose variant is written
    interrupted,   \* position at which the cancellation signal arrived, "none" before
    torn,          \* the progress file was truncated and not written completely
    limit,         \* --limit of the running process, 0 without one
    swapped,       \* the counter of swaps that the run reports
    updated,       \* the counter of metafield writes that the run reports
    farve,         \* the shop: custom.farve of every product
    retry_count,   \* retry_count of main() of railway_start.py
    peer,          \* <<ledger>> in the memory of a second updater process, <<>> without one
    clock,         \* time.time(), in ticks
    requests_this_minute,
    last_minute_reset,
    consecutive_failures,
    winStart,      \* start of the observed interval, -1 before it is chosen
    winCount,      \* remote calls issued in [winStart, winStart + Window)
    acquired,      \* rate_limit_check calls since the last remote call
    loop,          \* the retry loop being executed
    attempts,      \* HTTP attempts / iterations made by this execution
    rate_limited_count,
    lastOutcome,   \* outcome of the last attempt
    result,        \* what the retry loop returned, "running" before that
    caller,        \* the loop around the retry loop, "none" without one
    total_requests, \* self.total_requests of the persistent updater
    delay          \* seconds slept after the last attempt, 0 without a sleep

reportVars == <<swapped, updated, farve>>
superVars == <<retry_count, peer>>
planVars == <<to_swap, to_update, interrupted, torn, limit, reportVars,
              superVars>>
paceVars == <<clock, requests_this_minute, last_minute_reset,
              consecutive_failures, winStart, winCount>>
rateVars == <<paceVars, acquired>>
retryVars == <<loop, attempts, rate_limited_count, lastOutcome, result, caller,
               total_requests, delay>>
otherVars == <<planVars, rateVars, retryVars>>

vars == <<script, origImages, hasCost, remoteImages, remotePrice, disk, mem,
          dryRun, pc, products, cursor, remaining, idx, imgOk, priceOk,
          resp1ok, attempt, snap, runNo, loaded, calls, lastCall, clean,
          swaps, partial, prevPartial, killedProcessed, planVars, rateVars,
          retryVars>>

\* ----------------------------------------------------------------- ledger
NoError == ""
EmptyLedger ==
    [processed |-> {}, images |-> {}, prices |-> {},
     failed |-> [i \in Items |-> NoError]]

NoCall == [item |-> NoItem, kind |-> "none"]
Call(i, k) == [item |-> i, kind |-> k]

Cur == IF idx \in 1..Len(remaining) THEN remaining[idx] ELSE NoItem

\* ------------------------------------------------------------ the remote
Remove(s, x) == SelectSeq(s, LAMBDA y : y # x)

InsertAt(s, x, p) ==
    SubSeq(s, 1, p - 1) \o <<x>> \o SubSeq(s, p, Len(s))

Min(a, b) == IF a < b THEN a ELSE b

MoveToEnd(s, x, p) == Remove(s, x) \o <<x>>

\* PUT images/<id>.json {"position": p}: the image moves to index p and
\* the others shift.
MoveTo(s, x, p) ==
    IF \E k \in 1..Len(s) : s[k] = x
    THEN InsertAt(Remove(s, x), x, Min(p, Len(s)))
    ELSE s

SwapFirstTwo(s) ==
    IF Len(s) < 2 THEN s ELSE <<s[2], s[1]>> \o SubSeq(s, 3, Len(s))

\* ------------------------------------------------------------ enumeration
PageOf(c) ==
    SubSeq(Catalog, c * PageSize + 1, Min((c + 1) * PageSize, MaxItems))

HasNextPage(c) == (c + 1) * PageSize < MaxItems

IsProcessedNever(id) == FALSE

\* is_processed / "product_id in self.processed"
IsProcessed(id) == id \in mem.processed

Unprocessed(ps) == SelectSeq(ps, LAMBDA p : ~IsProcessed(p))


\* ------------------------------------------------------- step bookkeeping
catalogVars == <<script, origImages, hasCost>>
remoteVars == <<remoteImages, remotePrice>>
ledgerVars == <<disk, mem>>
fetchVars == <<products, cursor, remaining>>
localVars == <<imgOk, priceOk, resp1ok, attempt, snap>>
runVars == <<dryRun, runNo, loaded, prevPartial>>

Outcomes == {"ok", "throttled", "error", "exception"}

\* The step issues remote call k for product i and receives outcome o.
Issue(i, k, o) ==
    /\ lastCall' = Call(i, k)
    /\ calls' = IF i = NoItem THEN calls ELSE calls \cup {Call(i, k)}
    /\ clean' = (clean /\ o = "ok")

\* The step issues no remote call.
Local ==
    /\ lastCall' = NoCall
    /\ UNCHANGED <<calls, clean>>

\* Which sub-step failed alone, given the two results of one product and
\* whether the product has a price sub-step at all.
PartialOf(i, p, c) ==
    IF i /\ ~p THEN "price_failed"
    ELSE IF ~i /\ p /\ c THEN "img_failed"
    ELSE "none"

Bump(f, i) == [f EXCEPT ![i] = Min(2, @ + 1)]

CatalogInit ==
    /\ origImages \in [Items -> ImageLists]
    /\ hasCost \in [Items -> BOOLEAN]
    /\ remoteImages = origImages
    /\ remotePrice = [i \in Items |-> "orig"]

ProcessIdle ==
    /\ disk = EmptyLedger
    /\ mem = EmptyLedger
    /\ dryRun = FALSE
    /\ cursor = 0
    /\ imgOk = FALSE
    /\ priceOk = FALSE
    /\ resp1ok = FALSE
    /\ attempt = 0
    /\ snap = <<0, 0>>
    /\ runNo = 0
    /\ loaded = {}
    /\ calls = {}
    /\ lastCall = NoCall
    /\ clean = TRUE
    /\ swaps = [i \in Items |-> 0]
    /\ partial = [i \in Items |-> "none"]
    /\ prevPartial = [i \in Items |-> "none"]
    /\ killedProcessed = {}

ProcessInit ==
    /\ ProcessIdle
    /\ products = <<>>
    /\ remaining = <<>>
    /\ idx = 0

PlanIdle ==
    /\ to_swap = <<>>
    /\ to_update = <<>>
    /\ interrupted = "none"
    /\ torn = FALSE
    /\ limit = 0
    /\ swapped = 0
    /\ updated = 0
    /\ farve = [i \in Items |-> "danish"]
    /\ retry_count = 0
    /\ peer = <<>>

\* __init__: the rate limiting counters.
RateInit ==
    /\ clock = 0
    /\ requests_this_minute = 0
    /\ last_minute_reset = 0
    /\ consecutive_failures = 0
    /\ winStart = -1
    /\ winCount = 0
    /\ acquired = 0

RetryIdle ==
    /\ loop = "none"
    /\ attempts = 0
    /\ rate_limited_count = 0
    /\ lastOutcome = "none"
    /\ result = "running"
    /\ caller = "none"
    /\ total_requests = 0
    /\ delay = 0

Init ==
    /\ script \in Scripts
    /\ pc = "off"
    /\ CatalogInit
    /\ ProcessInit
    /\ PlanIdle
    /\ RateInit
    /\ RetryIdle

\* main(): dry_run = args.dry_run or not args.apply
DryRunOf(apply, dry) == dry \/ ~apply

\* The modes the command line can select.
DryRuns == {DryRunOf(a, d) : a \in BOOLEAN, d \in BOOLEAN}

\* main(): --reset removes the progress file, the constructor loads it
\* (load_progress), run() starts with the enumeration.
Launch ==
    /\ script \in Scripts
    /\ pc \in {"off", "done"}
    /\ runNo < MaxRuns
    /\ \E dr \in DryRuns, reset \in BOOLEAN :
        LET file == IF reset THEN EmptyLedger ELSE disk IN
        /\ dryRun' = dr
        /\ disk' = file
        /\ mem' = file
        /\ loaded' = file.processed
        /\ clean' = (clean /\ ~dr /\ ~reset)
        /\ partial' = IF reset THEN [i \in Items |-> "none"] ELSE partial
        /\ prevPartial' = partial'
    /\ runNo' = runNo + 1
    /\ pc' = "fetch"
    /\ products' = <<>>
    /\ cursor' = 0
    /\ remaining' = <<>>
    /\ idx' = 0
    /\ imgOk' = FALSE
    /\ priceOk' = FALSE
    /\ resp1ok' = FALSE
    /\ attempt' = 0
    /\ snap' = <<0, 0>>
    /\ calls' = {}
    /\ lastCall' = NoCall
    /\ UNCHANGED <<catalogVars, remoteVars, swaps, killedProcessed, otherVars>>

\* The process is killed: everything in memory is lost.
Kill ==
    /\ pc \notin {"off", "done"}
    /\ pc' = "off"
    /\ mem' = EmptyLedger
    /\ products' = <<>>
    /\ cursor' = 0
    /\ remaining' = <<>>
    /\ idx' = 0
    /\ imgOk' = FALSE
    /\ priceOk' = FALSE
    /\ resp1ok' = FALSE
    /\ attempt' = 0
    /\ snap' = <<0, 0>>
    /\ lastCall' = NoCall
    /\ killedProcessed' = mem.processed
    /\ calls' = {}
    /\ UNCHANGED <<catalogVars, remoteVars, disk, runVars, clean, swaps, partial,
                   otherVars>>

\* run(): the list is complete; filter out the processed products and
\* start the loop, or report that everything is processed.
StartLoop(ps) ==
    /\ products' = ps
    /\ remaining' = Unprocessed(ps)
    /\ idx' = 0
    /\ pc' = IF Unprocessed(ps) = <<>> THEN "done" ELSE "next"

\* -------------------------------------------------- robust_venture_fix.py
RobustMarkImage(l, id) == [l EXCEPT !.images = @ \cup {id}]
RobustMarkPrice(l, id) == [l EXCEPT !.prices = @ \cup {id}]
RobustMarkProcessed(l, id) == [l EXCEPT !.processed = @ \cup {id}]
MarkFailed(l, id, err) == [l EXCEPT !.failed[id] = err]

\* fetch_venture_products: one page; a failed page raises out of run().
RobustFetch ==
    /\ script = "robust" /\ pc = "fetch"
    /\ \E o \in {"ok", "error"} :
        /\ Issue(NoItem, "page", o)
        /\ IF o = "ok"
           THEN IF HasNextPage(cursor)
                THEN /\ products' = products \o PageOf(cursor)
                     /\ cursor' = cursor + 1
                     /\ UNCHANGED <<pc, remaining, idx>>
                ELSE /\ StartLoop(products \o PageOf(cursor))
                     /\ UNCHANGED cursor
           ELSE /\ pc' = "off"
                /\ UNCHANGED <<fetchVars, idx>>
    /\ UNCHANGED <<catalogVars, remoteVars, ledgerVars, localVars, runVars, swaps>>
    /\ UNCHANGED <<partial, killedProcessed, otherVars>>

RobustNeedsSwapAlways(id) == TRUE

\* process_product: "product_id not in self.tracker.updated_images"
RobustNeedsSwap(id) == id \notin mem.images

\* run() loop head and the start of process_product.
RobustNext ==
    /\ script = "robust" /\ pc = "next"
    /\ Local
    /\ IF idx = Len(remaining)
       THEN /\ pc' = "done"
            /\ UNCHANGED <<idx, imgOk, priceOk>>
       ELSE LET id == remaining[idx + 1] IN
            /\ idx' = idx + 1
            /\ IF IsProcessed(id)
               THEN /\ pc' = "next"
                    /\ UNCHANGED <<imgOk, priceOk>>
               ELSE /\ priceOk' = FALSE
                    /\ IF RobustNeedsSwap(id)
                       THEN /\ imgOk' = FALSE
                            /\ pc' = IF dryRun THEN "img_mark" ELSE "img_get"
                       ELSE /\ imgOk' = TRUE
                            /\ pc' = "price"
    /\ UNCHANGED <<catalogVars, remoteVars, ledgerVars, fetchVars, resp1ok,
                   attempt, snap, runVars, swaps>>
    /\ UNCHANGED <<partial, killedProcessed, otherVars>>

\* swap_product_images: GET the product.
RobustImgGet ==
    /\ script = "robust" /\ pc = "img_get"
    /\ \E o \in {"ok", "error", "exception"} :
        /\ Issue(Cur, "get", o)
        /\ IF o = "ok"
           THEN IF Len(remoteImages[Cur]) < 2
                THEN pc' = "img_mark" /\ UNCHANGED snap
                ELSE /\ pc' = "img_put1"
                     /\ snap' = <<remoteImages[Cur][1], remoteImages[Cur][2]>>
           ELSE pc' = "img_fail" /\ UNCHANGED snap
    /\ UNCHANGED <<catalogVars, remoteVars, ledgerVars, fetchVars, idx, imgOk,
                   priceOk, resp1ok, attempt, runVars, swaps>>
    /\ UNCHANGED <<partial, killedProcessed, otherVars>>

\* swap_product_images: first image to position 2.
RobustImgPut1 ==
    /\ script = "robust" /\ pc = "img_put1"
    /\ \E o \in {"ok", "error", "exception"} :
        /\ Issue(Cur, "put1", o)
        /\ resp1ok' = (o = "ok")
        /\ remoteImages' =
             IF o = "ok"
             THEN [remoteImages EXCEPT ![Cur] = MoveTo(@, snap[1], 2)]
             ELSE remoteImages
        /\ pc' = IF o = "exception" THEN "img_fail" ELSE "img_put2"
    /\ UNCHANGED <<catalogVars, remotePrice, ledgerVars, fetchVars, idx, imgOk,
                   priceOk, attempt, snap, runVars, swaps>>
    /\ UNCHANGED <<partial, killedProcessed, otherVars>>

\* swap_product_images: second image to position 1; resp1.ok and resp2.ok.
RobustImgPut2 ==
    /\ script = "robust" /\ pc = "img_put2"
    /\ \E o \in {"ok", "error", "exception"} :
        /\ Issue(Cur, "put2", o)
        /\ remoteImages' =
             IF o = "ok"
             THEN [remoteImages EXCEPT ![Cur] = MoveTo(@, snap[2], 1)]
             ELSE remoteImages
        /\ pc' = IF o = "ok" /\ resp1ok THEN "img_mark" ELSE "img_fail"
        /\ swaps' = IF o = "ok" /\ resp1ok THEN Bump(swaps, Cur) ELSE swaps
    /\ UNCHANGED <<catalogVars, remotePrice, ledgerVars, fetchVars, idx, imgOk,
                   priceOk, resp1ok, attempt, snap, runVars>>
    /\ UNCHANGED <<partial, killedProcessed, otherVars>>

\* process_product: the price branch taken after the image sub-step.
RobustPricePc(id) ==
    IF hasCost[id] /\ id \notin mem.prices
    THEN IF dryRun THEN "price_mark" ELSE "price_put"
    ELSE "final"

\* mark_image_updated / mark_failed after the swap, then the price branch.
RobustImgRecord ==
    /\ script = "robust" /\ pc \in {"img_mark", "img_fail"}
    /\ Local
    /\ mem' = IF pc = "img_mark"
              THEN RobustMarkImage(mem, Cur)
              ELSE MarkFailed(mem, Cur, "Image swap failed")
    /\ disk' = mem'
    /\ imgOk' = (pc = "img_mark")
    /\ pc' = "price"
    /\ UNCHANGED <<catalogVars, remoteVars, fetchVars, idx, priceOk, resp1ok,
                   attempt, snap, runVars, swaps>>
    /\ UNCHANGED <<partial, killedProcessed, otherVars>>

\* process_product: decide whether the price sub-step runs.
RobustPrice ==
    /\ script = "robust" /\ pc = "price"
    /\ Local
    /\ pc' = RobustPricePc(Cur)
    /\ priceOk' = (RobustPricePc(Cur) = "final")
    /\ UNCHANGED <<catalogVars, remoteVars, ledgerVars, fetchVars, idx, imgOk,
                   resp1ok, attempt, snap, runVars, swaps>>
    /\ UNCHANGED <<partial, killedProcessed, otherVars>>

\* update_variant_price: PUT the variant price cost * 2.20.
RobustPricePut ==
    /\ script = "robust" /\ pc = "price_put"
    /\ \E o \in {"ok", "error", "exception"} :
        /\ Issue(Cur, "price", o)
        /\ remotePrice' =
             IF o = "ok" THEN [remotePrice EXCEPT ![Cur] = "2.20"]
             ELSE remotePrice
        /\ pc' = IF o = "ok" THEN "price_mark" ELSE "price_fail"
    /\ UNCHANGED <<catalogVars, remoteImages, ledgerVars, fetchVars, idx,
                   localVars, runVars, swaps>>
    /\ UNCHANGED <<partial, killedProcessed, otherVars>>

\* mark_price_updated / mark_failed after the price PUT.
RobustPriceRecord ==
    /\ script = "robust" /\ pc \in {"price_mark", "price_fail"}
    /\ Local
    /\ mem' = IF pc = "price_mark"
              THEN RobustMarkPrice(mem, Cur)
              ELSE MarkFailed(mem, Cur, "Price update failed")
    /\ disk' = mem'
    /\ priceOk' = (pc = "price_mark")
    /\ pc' = "final"
    /\ UNCHANGED <<catalogVars, remoteVars, fetchVars, idx, imgOk, resp1ok,
                   attempt, snap, runVars, swaps>>
    /\ UNCHANGED <<partial, killedProcessed, otherVars>>

RobustAllOk == imgOk /\ priceOk

\* process_product: mark_processed when both results are true.
RobustFinal ==
    /\ script = "robust" /\ pc = "final"
    /\ Local
    /\ IF RobustAllOk
       THEN /\ mem' = RobustMarkProcessed(mem, Cur)
            /\ disk' = mem'
       ELSE UNCHANGED ledgerVars
    /\ pc' = "next"
    /\ UNCHANGED <<catalogVars, remoteVars, fetchVars, idx, localVars,
                   runVars, swaps>>
    /\ partial' = [partial EXCEPT ![Cur] = PartialOf(imgOk, priceOk, hasCost[Cur])]
    /\ UNCHANGED <<killedProcessed, otherVars>>

\* -------------------------------------------- ultra_robust_venture_fix.py
\* The GraphQL id of the first variant of a product, split at "/".
VariantGid(id) == <<"gid:", "", "shopify", "ProductVariant", id>>

\* update_price_robust: variant_id.split("/")[-2]
UltraPriceKey(gid) == gid[Len(gid) - 1]

\* fetch_venture_products_batch and the loop of run(): a failed fetch
\* returns ([], cursor).
UltraFetch ==
    /\ script = "ultra" /\ pc = "fetch"
    /\ \E o \in Outcomes :
        /\ Issue(NoItem, "page", o)
        /\ IF o = "ok"
           THEN IF HasNextPage(cursor)
                THEN /\ products' = products \o PageOf(cursor)
                     /\ cursor' = cursor + 1
                     /\ UNCHANGED <<pc, remaining, idx>>
                ELSE /\ StartLoop(products \o PageOf(cursor))
                     /\ cursor' = 0
           ELSE IF cursor = 0
                THEN /\ StartLoop(products)
                     /\ UNCHANGED cursor
                ELSE UNCHANGED <<fetchVars, pc, idx>>
    /\ UNCHANGED <<catalogVars, remoteVars, ledgerVars, localVars, runVars, swaps>>
    /\ UNCHANGED <<partial, killedProcessed, otherVars>>

UltraNeedsSwap(id) == ~dryRun /\ id \notin mem.images

UltraNeedsPrice(id) ==
    /\ hasCost[id]
    /\ ~dryRun
    /\ UltraPriceKey(VariantGid(id)) \notin mem.prices

\* process_product: the price branch taken after swap_images_robust.
UltraPricePc(id) == IF UltraNeedsPrice(id) THEN "price_put" ELSE "final"

\* run() loop head and the start of process_product.
UltraNext ==
    /\ script = "ultra" /\ pc = "next"
    /\ Local
    /\ IF idx = Len(remaining)
       THEN /\ pc' = "final_save"
            /\ UNCHANGED <<idx, imgOk, priceOk, attempt>>
       ELSE LET id == remaining[idx + 1] IN
            /\ idx' = idx + 1
            /\ IF IsProcessed(id)
               THEN /\ pc' = "next"
                    /\ UNCHANGED <<imgOk, priceOk, attempt>>
               ELSE /\ imgOk' = TRUE
                    /\ priceOk' = TRUE
                    /\ attempt' = 0
                    /\ pc' = IF UltraNeedsSwap(id) THEN "img_get"
                             ELSE UltraPricePc(id)
    /\ UNCHANGED <<catalogVars, remoteVars, ledgerVars, fetchVars, resp1ok,
                   snap, runVars, swaps>>
    /\ UNCHANGED <<partial, killedProcessed, otherVars>>

\* swap_images_robust returns: image_success, self.failed, then the price
\* branch of process_product.
UltraSwapReturn(res) ==
    /\ imgOk' = res
    /\ mem' = IF res
              THEN [mem EXCEPT !.images = @ \cup {Cur}]
              ELSE MarkFailed(mem, Cur, "Image swap failed")
    /\ attempt' = 0
    /\ pc' = UltraPricePc(Cur)

\* swap_images_robust: a failed attempt continues the loop or, on the last
\* attempt, returns False.
UltraSwapRetry ==
    IF attempt < UltraMaxRetries - 1
    THEN /\ attempt' = attempt + 1
         /\ pc' = "img_get"
         /\ UNCHANGED <<imgOk, mem>>
    ELSE UltraSwapReturn(FALSE)

UltraImgGet ==
    /\ script = "ultra" /\ pc = "img_get"
    /\ \E o \in Outcomes :
        /\ Issue(Cur, "get", o)
        /\ IF o = "ok"
           THEN IF Len(remoteImages[Cur]) < 2
                THEN UltraSwapReturn(TRUE) /\ UNCHANGED snap
                ELSE /\ pc' = "img_put1"
                     /\ snap' = <<remoteImages[Cur][1], remoteImages[Cur][2]>>
                     /\ UNCHANGED <<imgOk, mem, attempt>>
           ELSE UltraSwapRetry /\ UNCHANGED snap
    /\ UNCHANGED <<catalogVars, remoteVars, disk, fetchVars, idx, priceOk,
                   resp1ok, runVars, swaps>>
    /\ UNCHANGED <<partial, killedProcessed, otherVars>>

UltraImgPut1 ==
    /\ script = "ultra" /\ pc = "img_put1"
    /\ \E o \in Outcomes :
        /\ Issue(Cur, "put1", o)
        /\ remoteImages' =
             IF o = "ok"
             THEN [remoteImages EXCEPT ![Cur] = MoveTo(@, snap[1], 2)]
             ELSE remoteImages
        /\ IF o \in {"ok", "error"}
           THEN /\ resp1ok' = (o = "ok")
                /\ pc' = "img_put2"
                /\ UNCHANGED <<imgOk, mem, attempt>>
           ELSE UltraSwapRetry /\ UNCHANGED resp1ok
    /\ UNCHANGED <<catalogVars, remotePrice, disk, fetchVars, idx, priceOk,
                   snap, runVars, swaps>>
    /\ UNCHANGED <<partial, killedProcessed, otherVars>>

UltraImgPut2 ==
    /\ script = "ultra" /\ pc = "img_put2"
    /\ \E o \in Outcomes :
        /\ Issue(Cur, "put2", o)
        /\ remoteImages' =
             IF o = "ok"
             THEN [remoteImages EXCEPT ![Cur] = MoveTo(@, snap[2], 1)]
             ELSE remoteImages
        /\ IF o = "ok" /\ resp1ok
           THEN UltraSwapReturn(TRUE) /\ swaps' = Bump(swaps, Cur)
           ELSE UltraSwapRetry /\ UNCHANGED swaps
    /\ UNCHANGED <<catalogVars, remotePrice, disk, fetchVars, idx, priceOk,
                   resp1ok, snap, runVars>>
    /\ UNCHANGED <<partial, killedProcessed, otherVars>>

\* update_price_robust: PUT the variant price cost * 2.20, three attempts.
UltraPricePut ==
    /\ script = "ultra" /\ pc = "price_put"
    /\ \E o \in Outcomes :
        /\ Issue(Cur, "price", o)
        /\ IF o = "ok"
           THEN /\ remotePrice' = [remotePrice EXCEPT ![Cur] = "2.20"]
                /\ mem' = [mem EXCEPT
                             !.prices = @ \cup {UltraPriceKey(VariantGid(Cur))}]
                /\ pc' = "final"
                /\ UNCHANGED <<priceOk, attempt>>
           ELSE /\ UNCHANGED remotePrice
                /\ IF attempt < UltraMaxRetries - 1
                   THEN /\ attempt' = attempt + 1
                        /\ UNCHANGED <<pc, priceOk, mem>>
                   ELSE /\ priceOk' = FALSE
                        /\ mem' = MarkFailed(mem, Cur, "Price update failed")
                        /\ pc' = "final"
                        /\ UNCHANGED attempt
    /\ UNCHANGED <<catalogVars, remoteImages, disk, fetchVars, idx, imgOk,
                   resp1ok, snap, runVars, swaps>>
    /\ UNCHANGED <<partial, killedProcessed, otherVars>>

\* process_product: overall_success = image_success or price_success
UltraOverallSuccess == imgOk \/ priceOk

UltraSaveDue(l) == Cardinality(l.processed) % SaveEvery = 0

\* process_product: add to processed, save every 5 products.
UltraFinal ==
    /\ script = "ultra" /\ pc = "final"
    /\ Local
    /\ mem' = IF UltraOverallSuccess
              THEN [mem EXCEPT !.processed = @ \cup {Cur}]
              ELSE mem
    /\ disk' = IF UltraSaveDue(mem') THEN mem' ELSE disk
    /\ pc' = "next"
    /\ UNCHANGED <<catalogVars, remoteVars, fetchVars, idx, localVars,
                   runVars, swaps>>
    /\ partial' = [partial EXCEPT ![Cur] = PartialOf(imgOk, priceOk, hasCost[Cur])]
    /\ UNCHANGED <<killedProcessed, otherVars>>

\* run(): the final save_progress after the loop.
UltraFinalSave ==
    /\ script = "ultra" /\ pc = "final_save"
    /\ Local
    /\ disk' = mem
    /\ pc' = "done"
    /\ UNCHANGED <<catalogVars, remoteVars, mem, fetchVars, idx, localVars,
                   runVars, swaps>>
    /\ UNCHANGED <<partial, killedProcessed, otherVars>>

\* ---------------------------------------------- persistent_venture_fix.py
\* fetch_all_products: a page that make_request_persistent gives up on, or
\* that cannot be parsed, is fetched again.
PersFetch ==
    /\ script = "persistent" /\ pc = "fetch"
    /\ \E o \in Outcomes :
        /\ Issue(NoItem, "page", o)
        /\ IF o = "ok"
           THEN IF HasNextPage(cursor)
                THEN /\ products' = products \o PageOf(cursor)
                     /\ cursor' = cursor + 1
                     /\ UNCHANGED <<pc, remaining, idx>>
                ELSE /\ StartLoop(products \o PageOf(cursor))
                     /\ UNCHANGED cursor
           ELSE UNCHANGED <<fetchVars, pc, idx>>
    /\ UNCHANGED <<catalogVars, remoteVars, ledgerVars, localVars, runVars, swaps>>
    /\ UNCHANGED <<partial, killedProcessed, otherVars>>

PersPricePcApply(id) == IF hasCost[id] THEN "price_put" ELSE "final"

\* process_product_persistent: the price branch taken after the swap.
PersPricePc(id) == IF hasCost[id] /\ ~dryRun THEN "price_put" ELSE "final"

\* run() loop head and the start of process_product_persistent.
PersNext ==
    /\ script = "persistent" /\ pc = "next"
    /\ Local
    /\ IF idx = Len(remaining)
       THEN pc' = "done" /\ UNCHANGED idx
       ELSE LET id == remaining[idx + 1] IN
            /\ idx' = idx + 1
            /\ pc' = IF IsProcessed(id) THEN "next"
                     ELSE IF dryRun THEN PersPricePc(id)
                     ELSE "img_get"
    /\ UNCHANGED <<catalogVars, remoteVars, ledgerVars, fetchVars, localVars,
                   runVars, swaps>>
    /\ UNCHANGED <<partial, killedProcessed, otherVars>>

\* swap_images_persistent: GET until a response arrives.
PersImgGet ==
    /\ script = "persistent" /\ pc = "img_get"
    /\ \E o \in Outcomes :
        /\ Issue(Cur, "get", o)
        /\ IF o = "ok"
           THEN IF Len(remoteImages[Cur]) < 2
                THEN pc' = PersPricePc(Cur) /\ UNCHANGED snap
                ELSE /\ pc' = "img_put1"
                     /\ snap' = <<remoteImages[Cur][1], remoteImages[Cur][2]>>
           ELSE UNCHANGED <<pc, snap>>
    /\ UNCHANGED <<catalogVars, remoteVars, ledgerVars, fetchVars, idx, imgOk,
                   priceOk, resp1ok, attempt, runVars, swaps>>
    /\ UNCHANGED <<partial, killedProcessed, otherVars>>

\* swap_images_persistent: first image to position 2, until a response.
PersImgPut1 ==
    /\ script = "persistent" /\ pc = "img_put1"
    /\ \E o \in Outcomes :
        /\ Issue(Cur, "put1", o)
        /\ IF o = "ok"
           THEN /\ remoteImages' =
                     [remoteImages EXCEPT ![Cur] = MoveTo(@, snap[1], 2)]
                /\ pc' = "img_put2"
           ELSE UNCHANGED <<remoteImages, pc>>
    /\ UNCHANGED <<catalogVars, remotePrice, ledgerVars, fetchVars, idx,
                   localVars, runVars, swaps>>
    /\ UNCHANGED <<partial, killedProcessed, otherVars>>

\* swap_images_persistent: second image to position 1, until a response.
PersImgPut2 ==
    /\ script = "persistent" /\ pc = "img_put2"
    /\ \E o \in Outcomes :
        /\ Issue(Cur, "put2", o)
        /\ IF o = "ok"
           THEN /\ remoteImages' =
                     [remoteImages EXCEPT ![Cur] = MoveTo(@, snap[2], 1)]
                /\ swaps' = Bump(swaps, Cur)
                /\ pc' = PersPricePc(Cur)
           ELSE UNCHANGED <<remoteImages, pc, swaps>>
    /\ UNCHANGED <<catalogVars, remotePrice, ledgerVars, fetchVars, idx,
                   localVars, runVars>>
    /\ UNCHANGED <<partial, killedProcessed, otherVars>>

\* update_price_persistent: PUT the variant price cost * 1.75, until a
\* response.
PersPricePut ==
    /\ script = "persistent" /\ pc = "price_put"
    /\ \E o \in Outcomes :
        /\ Issue(Cur, "price", o)
        /\ IF o = "ok"
           THEN /\ remotePrice' = [remotePrice EXCEPT ![Cur] = "1.75"]
                /\ pc' = "final"
           ELSE UNCHANGED <<remotePrice, pc>>
    /\ UNCHANGED <<catalogVars, remoteImages, ledgerVars, fetchVars, idx,
                   localVars, runVars, swaps>>
    /\ UNCHANGED <<partial, killedProcessed, otherVars>>

PersSaveNothing(l, id) == l

\* save_progress(product_id): add to processed and write the file.
PersSaveProgress(l, id) == [l EXCEPT !.processed = @ \cup {id}]

PersFinal ==
    /\ script = "persistent" /\ pc = "final"
    /\ Local
    /\ mem' = PersSaveProgress(mem, Cur)
    /\ disk' = mem'
    /\ pc' = "next"
    /\ UNCHANGED <<catalogVars, remoteVars, fetchVars, idx, localVars,
                   runVars, swaps>>
    /\ partial' = [partial EXCEPT ![Cur] = PartialOf(imgOk, priceOk, hasCost[Cur])]
    /\ UNCHANGED <<killedProcessed, otherVars>>

\* ------------------------------------------------ improved_venture_fix.py
\* fetch_venture_products: a failed page breaks out with the products
\* fetched so far.
ImpFetch ==
    /\ script = "improved" /\ pc = "fetch"
    /\ \E o \in {"ok", "error", "exception"} :
        /\ Issue(NoItem, "page", o)
        /\ IF o = "ok"
           THEN IF HasNextPage(cursor)
                THEN /\ products' = products \o PageOf(cursor)
                     /\ cursor' = cursor + 1
                     /\ UNCHANGED <<pc, remaining, idx>>
                ELSE /\ StartLoop(products \o PageOf(cursor))
                     /\ UNCHANGED cursor
           ELSE /\ StartLoop(products)
                /\ UNCHANGED cursor
    /\ UNCHANGED <<catalogVars, remoteVars, ledgerVars, localVars, runVars, swaps>>
    /\ UNCHANGED <<partial, killedProcessed, otherVars>>

\* process_product: the price branch taken after swap_images_rest.
ImpPricePc(id) == IF hasCost[id] /\ ~dryRun THEN "price_put" ELSE "final"

\* run() loop head and the start of process_product.
ImpNext ==
    /\ script = "improved" /\ pc = "next"
    /\ Local
    /\ IF idx = Len(remaining)
       THEN /\ pc' = "done"
            /\ UNCHANGED <<idx, imgOk, priceOk>>
       ELSE LET id == remaining[idx + 1] IN
            /\ idx' = idx + 1
            /\ IF IsProcessed(id)
               THEN /\ pc' = "next"
                    /\ UNCHANGED <<imgOk, priceOk>>
               ELSE /\ imgOk' = TRUE
                    /\ priceOk' = TRUE
                    /\ pc' = IF dryRun THEN ImpPricePc(id) ELSE "img_get"
    /\ UNCHANGED <<catalogVars, remoteVars, ledgerVars, fetchVars, resp1ok,
                   attempt, snap, runVars, swaps>>
    /\ UNCHANGED <<partial, killedProcessed, otherVars>>

\* swap_images_rest: GET the product.
ImpImgGet ==
    /\ script = "improved" /\ pc = "img_get"
    /\ \E o \in {"ok", "error", "exception"} :
        /\ Issue(Cur, "get", o)
        /\ IF o = "ok"
           THEN IF Len(remoteImages[Cur]) < 2
                THEN pc' = ImpPricePc(Cur) /\ UNCHANGED <<snap, imgOk>>
                ELSE /\ pc' = "img_put1"
                     /\ snap' = <<remoteImages[Cur][1], remoteImages[Cur][2]>>
                     /\ UNCHANGED imgOk
           ELSE /\ imgOk' = FALSE
                /\ pc' = ImpPricePc(Cur)
                /\ UNCHANGED snap
    /\ UNCHANGED <<catalogVars, remoteVars, ledgerVars, fetchVars, idx,
                   priceOk, resp1ok, attempt, runVars, swaps>>
    /\ UNCHANGED <<partial, killedProcessed, otherVars>>

\* swap_images_rest: first image to position 2.
ImpImgPut1 ==
    /\ script = "improved" /\ pc = "img_put1"
    /\ \E o \in {"ok", "error", "exception"} :
        /\ Issue(Cur, "put1", o)
        /\ resp1ok' = (o = "ok")
        /\ remoteImages' =
             IF o = "ok"
             THEN [remoteImages EXCEPT ![Cur] = MoveTo(@, snap[1], 2)]
             ELSE remoteImages
        /\ IF o = "exception"
           THEN imgOk' = FALSE /\ pc' = ImpPricePc(Cur)
           ELSE pc' = "img_put2" /\ UNCHANGED imgOk
    /\ UNCHANGED <<catalogVars, remotePrice, ledgerVars, fetchVars, idx,
                   priceOk, attempt, snap, runVars, swaps>>
    /\ UNCHANGED <<partial, killedProcessed, otherVars>>

\* swap_images_rest: second image to position 1; resp1.ok and resp2.ok.
ImpImgPut2 ==
    /\ script = "improved" /\ pc = "img_put2"
    /\ \E o \in {"ok", "error", "exception"} :
        /\ Issue(Cur, "put2", o)
        /\ remoteImages' =
             IF o = "ok"
             THEN [remoteImages EXCEPT ![Cur] = MoveTo(@, snap[2], 1)]
             ELSE remoteImages
        /\ imgOk' = (o = "ok" /\ resp1ok)
        /\ swaps' = IF o = "ok" /\ resp1ok THEN Bump(swaps, Cur) ELSE swaps
        /\ pc' = ImpPricePc(Cur)
    /\ UNCHANGED <<catalogVars, remotePrice, ledgerVars, fetchVars, idx,
                   priceOk, resp1ok, attempt, snap, runVars>>
    /\ UNCHANGED <<partial, killedProcessed, otherVars>>

\* update_price_rest: PUT the variant price cost * 1.75.
ImpPricePut ==
    /\ script = "improved" /\ pc = "price_put"
    /\ \E o \in {"ok", "error", "exception"} :
        /\ Issue(Cur, "price", o)
        /\ remotePrice' =
             IF o = "ok" THEN [remotePrice EXCEPT ![Cur] = "1.75"]
             ELSE remotePrice
        /\ priceOk' = (o = "ok")
        /\ pc' = "final"
    /\ UNCHANGED <<catalogVars, remoteImages, ledgerVars, fetchVars, idx,
                   imgOk, resp1ok, attempt, snap, runVars, swaps>>
    /\ UNCHANGED <<partial, killedProcessed, otherVars>>

\* save_progress(product_id, success): add when success, write the file.
ImpSaveProgress(l, id, success) ==
    IF success THEN [l EXCEPT !.processed = @ \cup {id}] ELSE l

ImpFinal ==
    /\ script = "improved" /\ pc = "final"
    /\ Local
    /\ mem' = ImpSaveProgress(mem, Cur, imgOk /\ priceOk)
    /\ disk' = mem'
    /\ pc' = "next"
    /\ UNCHANGED <<catalogVars, remoteVars, fetchVars, idx, localVars,
                   runVars, swaps>>
    /\ partial' = [partial EXCEPT ![Cur] = PartialOf(imgOk, priceOk, hasCost[Cur])]
    /\ UNCHANGED <<killedProcessed, otherVars>>

\* ------------------------------------------------------ plan-then-apply
\* final_venture_fix.py and venture_design_updates.py keep no progress
\* file: every run enumerates, plans from what it reads and applies.
PlanScripts == {"final", "vdu"}

BatchSize == 25

\* main() of final_venture_fix.py / venture_design_updates.py is started.
PlanLaunch ==
    /\ script \in PlanScripts
    /\ pc \in {"off", "done"}
    /\ runNo < MaxRuns
    /\ \E dr \in DryRuns :
        /\ dryRun' = dr
        /\ clean' = (clean /\ ~dr)
    /\ runNo' = runNo + 1
    /\ pc' = "fetch"
    /\ products' = <<>>
    /\ cursor' = 0
    /\ idx' = 0
    /\ to_swap' = <<>>
    /\ to_update' = <<>>
    /\ swapped' = 0
    /\ updated' = 0
    /\ UNCHANGED <<interrupted, torn, limit, superVars, farve>>
    /\ calls' = {}
    /\ lastCall' = NoCall
    /\ UNCHANGED <<catalogVars, remoteVars, ledgerVars, remaining, localVars,
                   loaded, prevPartial, swaps, partial, killedProcessed,
                   rateVars, retryVars>>

\* The phase that follows planning: nothing in a dry run, else the swaps,
\* else the metafield batches.
ApplyPc(sw, up, first) ==
    IF dryRun THEN "done"
    ELSE IF sw # <<>> THEN first
    ELSE IF up # <<>> THEN "meta"
    ELSE "done"

\* The position after entry k of to_swap has been handled.
AfterSwap(k, first) ==
    IF k < Len(to_swap) THEN first
    ELSE IF to_update # <<>> THEN "meta"
    ELSE "done"

\* The loop index after entry k of to_swap: the next entry, or the offset
\* of the first batch.
AfterIdx(k) == IF k < Len(to_swap) THEN k ELSE 0

Batch(i) == SubSeq(to_update, i + 1, Min(i + BatchSize, Len(to_update)))

WritePrices(ids, v) ==
    [x \in Items |->
        IF \E k \in 1..Len(ids) : ids[k] = x THEN v ELSE remotePrice[x]]

\* final_venture_fix.py, the enumeration loop: one page; graphql_request
\* raises on a failed page and main() ends.
FinalFetch ==
    /\ script = "final" /\ pc = "fetch"
    /\ \E o \in {"ok", "error"} :
        /\ Issue(NoItem, "page", o)
        /\ IF o = "ok"
           THEN /\ products' = products \o PageOf(cursor)
                /\ IF HasNextPage(cursor)
                   THEN cursor' = cursor + 1 /\ UNCHANGED pc
                   ELSE pc' = "plan" /\ UNCHANGED cursor
           ELSE /\ pc' = "off"
                /\ UNCHANGED <<products, cursor>>
    /\ UNCHANGED <<catalogVars, remoteVars, ledgerVars, remaining, idx,
                   localVars, runVars, swaps, partial, killedProcessed,
                   otherVars>>

\* final_venture_fix.py, the planning loop: GET one product, plan its swap
\* when it has two images and its kostpris when it differs from cost * 1.75.
FinalPlan ==
    /\ script = "final" /\ pc = "plan"
    /\ LET id == products[idx + 1] IN
       \E o \in {"ok", "error", "exception"} :
        LET sw == IF o = "ok" /\ Len(remoteImages[id]) >= 2
                  THEN Append(to_swap, <<id, remoteImages[id][1],
                                         remoteImages[id][2]>>)
                  ELSE to_swap
            up == IF o # "exception" /\ hasCost[id] /\ remotePrice[id] # "1.75"
                  THEN Append(to_update, id)
                  ELSE to_update
        IN
        /\ Issue(id, "get", o)
        /\ to_swap' = sw
        /\ to_update' = up
        /\ UNCHANGED <<interrupted, torn, limit, superVars, reportVars>>
        /\ IF idx + 1 < Len(products)
           THEN idx' = idx + 1 /\ UNCHANGED pc
           ELSE idx' = 0 /\ pc' = ApplyPc(sw, up, "swap1")
    /\ UNCHANGED <<catalogVars, remoteVars, ledgerVars, fetchVars, localVars,
                   runVars, swaps, partial, killedProcessed, rateVars,
                   retryVars>>

\* final_venture_fix.py, apply: first image of the planned pair to position 2.
FinalPut1 ==
    /\ script = "final" /\ pc = "swap1"
    /\ LET e == to_swap[idx + 1] IN
       \E o \in {"ok", "error", "exception"} :
        /\ Issue(e[1], "put1", o)
        /\ resp1ok' = (o = "ok")
        /\ remoteImages' =
             IF o = "ok"
             THEN [remoteImages EXCEPT ![e[1]] = MoveTo(@, e[2], 2)]
             ELSE remoteImages
        /\ IF o = "exception"
           THEN /\ idx' = AfterIdx(idx + 1)
                /\ pc' = AfterSwap(idx + 1, "swap1")
           ELSE pc' = "swap2" /\ UNCHANGED idx
    /\ UNCHANGED <<catalogVars, remotePrice, ledgerVars, fetchVars, imgOk,
                   priceOk, attempt, snap, runVars, swaps, partial,
                   killedProcessed, otherVars>>

\* final_venture_fix.py, apply: second image of the planned pair to position 1.
FinalPut2 ==
    /\ script = "final" /\ pc = "swap2"
    /\ LET e == to_swap[idx + 1] IN
       \E o \in {"ok", "error", "exception"} :
        /\ Issue(e[1], "put2", o)
        /\ remoteImages' =
             IF o = "ok"
             THEN [remoteImages EXCEPT ![e[1]] = MoveTo(@, e[3], 1)]
             ELSE remoteImages
        /\ swaps' = IF o = "ok" /\ resp1ok THEN Bump(swaps, e[1]) ELSE swaps
        /\ swapped' = IF o = "ok" /\ resp1ok THEN swapped + 1 ELSE swapped
        /\ idx' = AfterIdx(idx + 1)
        /\ pc' = AfterSwap(idx + 1, "swap1")
    /\ UNCHANGED <<catalogVars, remotePrice, ledgerVars, fetchVars, localVars,
                   runVars, partial, killedProcessed, to_swap, to_update,
                   interrupted, torn, limit, superVars, updated, farve, rateVars,
                   retryVars>>

\* final_venture_fix.py, apply: one metafieldsSet batch; a failed batch is
\* logged and the loop goes on.  idx is the batch offset.
FinalMeta ==
    /\ script = "final" /\ pc = "meta"
    /\ \E o \in {"ok", "error"} :
        /\ Issue(Batch(idx)[1], "meta", o)
        /\ remotePrice' = IF o = "ok" THEN WritePrices(Batch(idx), "1.75")
                          ELSE remotePrice
        /\ updated' = IF o = "ok" THEN updated + Len(Batch(idx)) ELSE updated
        /\ idx' = idx + BatchSize
        /\ pc' = IF idx + BatchSize < Len(to_update) THEN "meta" ELSE "done"
    /\ UNCHANGED <<catalogVars, remoteImages, ledgerVars, fetchVars, localVars,
                   runVars, swaps, partial, killedProcessed, to_swap,
                   to_update, interrupted, torn, limit, superVars, swapped, farve,
                   rateVars, retryVars>>

\* venture_design_updates.py, planning: every product with two media is
\* swapped, every variant with a cost gets its kostpris written.
VduSwaps(ps) ==
    LET two == SelectSeq(ps, LAMBDA p : Len(remoteImages[p]) >= 2) IN
    [k \in 1..Len(two) |->
        <<two[k], remoteImages[two[k]][1], remoteImages[two[k]][2]>>]

VduMetafields(ps) == SelectSeq(ps, LAMBDA p : hasCost[p])

\* fetch_venture_products: one page through graphql_request; when its
\* retries are exhausted the error ends main().  After the last page main()
\* plans and, without --apply, returns.
VduFetch ==
    /\ script = "vdu" /\ pc = "fetch"
    /\ \E o \in {"ok", "raised"} :
        /\ Issue(NoItem, "page", o)
        /\ IF o = "ok"
           THEN LET ps == products \o PageOf(cursor) IN
                /\ products' = ps
                /\ IF HasNextPage(cursor)
                   THEN /\ cursor' = cursor + 1
                        /\ UNCHANGED <<pc, planVars>>
                   ELSE /\ to_swap' = VduSwaps(ps)
                        /\ to_update' = VduMetafields(ps)
                        /\ UNCHANGED <<interrupted, torn, limit, superVars, reportVars>>
                        /\ pc' = ApplyPc(VduSwaps(ps), VduMetafields(ps),
                                         "reorder")
                        /\ UNCHANGED cursor
           ELSE /\ pc' = "off"
                /\ UNCHANGED <<products, cursor, planVars>>
    /\ UNCHANGED <<catalogVars, remoteVars, ledgerVars, remaining, idx,
                   localVars, runVars, swaps, partial, killedProcessed,
                   rateVars, retryVars>>

\* main(), apply: productReorderMedia moves the first medium to position 2
\* and the second to position 1; userErrors are printed and the loop goes on.
VduReorder ==
    /\ script = "vdu" /\ pc = "reorder"
    /\ LET e == to_swap[idx + 1] IN
       \E o \in {"ok", "error", "raised"} :
        /\ Issue(e[1], "reorder", o)
        /\ remoteImages' =
             IF o = "ok"
             THEN [remoteImages EXCEPT
                     ![e[1]] = MoveTo(MoveTo(@, e[2], 2), e[3], 1)]
             ELSE remoteImages
        /\ swaps' = IF o = "ok" THEN Bump(swaps, e[1]) ELSE swaps
        /\ IF o = "raised"
           THEN pc' = "off" /\ UNCHANGED idx
           ELSE /\ idx' = AfterIdx(idx + 1)
                /\ pc' = AfterSwap(idx + 1, "reorder")
    /\ UNCHANGED <<catalogVars, remotePrice, ledgerVars, fetchVars, localVars,
                   runVars, partial, killedProcessed, otherVars>>

\* main(), apply: one metafieldsSet batch.
VduMeta ==
    /\ script = "vdu" /\ pc = "meta"
    /\ \E o \in {"ok", "error", "raised"} :
        /\ Issue(Batch(idx)[1], "meta", o)
        /\ remotePrice' = IF o = "ok" THEN WritePrices(Batch(idx), "2.20")
                          ELSE remotePrice
        /\ IF o = "raised"
           THEN pc' = "off" /\ UNCHANGED <<idx, updated>>
           ELSE /\ updated' = updated + Len(Batch(idx))
                /\ idx' = idx + BatchSize
                /\ pc' = IF idx + BatchSize < Len(to_update) THEN "meta"
                         ELSE "done"
    /\ UNCHANGED <<catalogVars, remoteImages, ledgerVars, fetchVars, localVars,
                   runVars, swaps, partial, killedProcessed, to_swap,
                   to_update, interrupted, torn, limit, superVars, swapped, farve,
                   rateVars, retryVars>>

\* ------------------------------------- ultra_robust_venture_fix.py, pacing
\* Time is counted in ticks, TicksPerSecond of them in a second.
TicksPerSecond == 1
MaxClock == 66
MaxFailures == 1
MaxLatency == 10

Window == 60
Ceiling == 20

WindowTicks == Window * TicksPerSecond

\* random.uniform(1.5, 3.0): the two ends of the range.
BaseDelays == {(3 * TicksPerSecond + 1) \div 2, 3 * TicksPerSecond}

\* min(5, consecutive_failures * 0.5) + random.uniform(0.1, 0.5), with the
\* jitter at its upper end, rounded up to a tick.
FailureDelay(cf) == ((Min(10, cf) + 1) * TicksPerSecond + 1) \div 2

\* Time from the start of a remote call to the next rate_limit_check: the
\* latency of the call and the code after it.
Latencies == {0, MaxLatency * TicksPerSecond}

CountAcquireTwice(n) == n + 2

\* One call of rate_limit_check.
CountAcquire(n) == n + 1

\* rate_limit_check: reset the counter after a minute, sleep out the minute
\* when the counter has reached the ceiling, sleep the pacing delay, count
\* the request.
RateLimitCheck ==
    /\ pc = "check"
    /\ clock < MaxClock * TicksPerSecond
    /\ LET current_time == clock
           expired == current_time - last_minute_reset > WindowTicks
           req1 == IF expired THEN 0 ELSE requests_this_minute
           reset1 == IF expired THEN current_time ELSE last_minute_reset
           sleep_time == WindowTicks - (current_time - reset1)
           sleeps == req1 >= Ceiling /\ sleep_time > 0
           woken == IF sleeps THEN current_time + sleep_time ELSE current_time
       IN
       \E d \in IF consecutive_failures > 0
                THEN {FailureDelay(consecutive_failures)}
                ELSE BaseDelays :
        /\ requests_this_minute' = (IF sleeps THEN 0 ELSE req1) + 1
        /\ last_minute_reset' = IF sleeps THEN woken ELSE reset1
        /\ clock' = woken + d
    /\ acquired' = CountAcquire(acquired)
    /\ pc' = "call"
    /\ UNCHANGED <<catalogVars, remoteVars, ledgerVars, fetchVars, idx,
                   localVars, runVars, calls, lastCall, clean, swaps, partial,
                   killedProcessed, planVars, consecutive_failures, winStart,
                   winCount, retryVars>>

\* The remote call that follows rate_limit_check is issued at the current
\* time.  An exception counts a consecutive failure, a completed sub-step
\* resets the count.  The observed interval starts at a call of the
\* observer's choice.
RateRequest ==
    /\ pc = "call"
    /\ \E lat \in Latencies, o \in {"ok", "completed", "exception"} :
        /\ clock' = clock + lat
        /\ consecutive_failures' =
             CASE o = "exception" -> Min(MaxFailures, consecutive_failures + 1)
               [] o = "completed" -> 0
               [] OTHER -> consecutive_failures
    /\ \/ winStart = -1 /\ UNCHANGED <<winStart, winCount>>
       \/ winStart = -1 /\ winStart' = clock /\ winCount' = 1
       \/ /\ winStart # -1
          /\ winCount' = IF clock < winStart + WindowTicks
                         THEN winCount + 1 ELSE winCount
          /\ UNCHANGED winStart
    /\ pc' = "check"
    /\ acquired' = 0
    /\ UNCHANGED <<catalogVars, remoteVars, ledgerVars, fetchVars, idx,
                   localVars, runVars, calls, lastCall, clean, swaps, partial,
                   killedProcessed, planVars, requests_this_minute,
                   last_minute_reset, retryVars>>

\* ------------------- ultra_robust_venture_fix.py, check and call apart
\* The positions of the ultra updater at a "self.rate_limit_check()" and
\* the position of the request that follows each.
CallPosition ==
    [fetch |-> "call_page", img_get |-> "call_get", img_put1 |-> "call_put1",
     img_put2 |-> "call_put2", price_put |-> "call_price"]

\* "self.rate_limit_check()" in fetch_venture_products_batch,
\* swap_images_robust and update_price_robust.
UltraAcquire ==
    /\ script = "ultra" /\ pc \in DOMAIN CallPosition
    /\ Local
    /\ acquired' = CountAcquire(acquired)
    /\ pc' = CallPosition[pc]
    /\ UNCHANGED <<catalogVars, remoteVars, ledgerVars, fetchVars, idx,
                   localVars, runVars, swaps, partial, killedProcessed,
                   planVars, paceVars, retryVars>>

\* A remote call of the ultra updater.
UltraCalled(i, k, o) == Issue(i, k, o) /\ acquired' = 0

\* fetch_venture_products_batch after its rate_limit_check, and the fetch
\* loop of run().
UltraPageCall ==
    /\ script = "ultra" /\ pc = "call_page"
    /\ \E o \in Outcomes :
        /\ UltraCalled(NoItem, "page", o)
        /\ IF o = "ok"
           THEN IF HasNextPage(cursor)
                THEN /\ products' = products \o PageOf(cursor)
                     /\ cursor' = cursor + 1
                     /\ pc' = "fetch"
                     /\ UNCHANGED <<remaining, idx>>
                ELSE /\ StartLoop(products \o PageOf(cursor))
                     /\ cursor' = 0
           ELSE IF cursor = 0
                THEN /\ StartLoop(products)
                     /\ UNCHANGED cursor
                ELSE pc' = "fetch" /\ UNCHANGED <<fetchVars, idx>>
    /\ UNCHANGED <<catalogVars, remoteVars, ledgerVars, localVars, runVars,
                   swaps, partial, killedProcessed, planVars, paceVars,
                   retryVars>>

\* swap_images_robust: the GET and the code up to the next rate_limit_check.
UltraGetCall ==
    /\ script = "ultra" /\ pc = "call_get"
    /\ \E o \in Outcomes :
        /\ UltraCalled(Cur, "get", o)
        /\ IF o = "ok"
           THEN IF Len(remoteImages[Cur]) < 2
                THEN UltraSwapReturn(TRUE) /\ UNCHANGED snap
                ELSE /\ pc' = "img_put1"
                     /\ snap' = <<remoteImages[Cur][1], remoteImages[Cur][2]>>
                     /\ UNCHANGED <<imgOk, mem, attempt>>
           ELSE UltraSwapRetry /\ UNCHANGED snap
    /\ UNCHANGED <<catalogVars, remoteVars, disk, fetchVars, idx, priceOk,
                   resp1ok, runVars, swaps, partial, killedProcessed,
                   planVars, paceVars, retryVars>>

\* swap_images_robust: the first position PUT.
UltraPut1Call ==
    /\ script = "ultra" /\ pc = "call_put1"
    /\ \E o \in Outcomes :
        /\ UltraCalled(Cur, "put1", o)
        /\ remoteImages' =
             IF o = "ok"
             THEN [remoteImages EXCEPT ![Cur] = MoveTo(@, snap[1], 2)]
             ELSE remoteImages
        /\ IF o \in {"ok", "error"}
           THEN /\ resp1ok' = (o = "ok")
                /\ pc' = "img_put2"
                /\ UNCHANGED <<imgOk, mem, attempt>>
           ELSE UltraSwapRetry /\ UNCHANGED resp1ok
    /\ UNCHANGED <<catalogVars, remotePrice, disk, fetchVars, idx, priceOk,
                   snap, runVars, swaps, partial, killedProcessed, planVars,
                   paceVars, retryVars>>

\* swap_images_robust: the second position PUT.
UltraPut2Call ==
    /\ script = "ultra" /\ pc = "call_put2"
    /\ \E o \in Outcomes :
        /\ UltraCalled(Cur, "put2", o)
        /\ remoteImages' =
             IF o = "ok"
             THEN [remoteImages EXCEPT ![Cur] = MoveTo(@, snap[2], 1)]
             ELSE remoteImages
        /\ IF o = "ok" /\ resp1ok
           THEN UltraSwapReturn(TRUE) /\ swaps' = Bump(swaps, Cur)
           ELSE UltraSwapRetry /\ UNCHANGED swaps
    /\ UNCHANGED <<catalogVars, remotePrice, disk, fetchVars, idx, priceOk,
                   resp1ok, snap, runVars, partial, killedProcessed, planVars,
                   paceVars, retryVars>>

\* update_price_robust: the price PUT.
UltraPriceCall ==
    /\ script = "ultra" /\ pc = "call_price"
    /\ \E o \in Outcomes :
        /\ UltraCalled(Cur, "price", o)
        /\ IF o = "ok"
           THEN /\ remotePrice' = [remotePrice EXCEPT ![Cur] = "2.20"]
                /\ mem' = [mem EXCEPT
                             !.prices = @ \cup {UltraPriceKey(VariantGid(Cur))}]
                /\ pc' = "final"
                /\ UNCHANGED <<priceOk, attempt>>
           ELSE /\ UNCHANGED remotePrice
                /\ IF attempt < UltraMaxRetries - 1
                   THEN /\ attempt' = attempt + 1
                        /\ pc' = "price_put"
                        /\ UNCHANGED <<priceOk, mem>>
                   ELSE /\ priceOk' = FALSE
                        /\ mem' = MarkFailed(mem, Cur, "Price update failed")
                        /\ pc' = "final"
                        /\ UNCHANGED attempt
    /\ UNCHANGED <<catalogVars, remoteImages, disk, fetchVars, idx, imgOk,
                   resp1ok, snap, runVars, swaps, partial, killedProcessed,
                   planVars, paceVars, retryVars>>

\* ------------------------------------------------------- the retry loops
\* One execution of a retry loop, one step per attempt: the remote request
\* of the attempt and the code up to the next attempt or the return.
MaxRetries == 10
StopAfterAttempt == 6
\* Caps of the rate_limited_count and total_requests counters.
MaxRateLimited == 10
MaxRequests == 20

RetryLoop ==
    [persistent |-> "make_request_persistent",
     vdu |-> "graphql_request",
     ultra |-> "swap_images_robust"]

ExhaustedLate(n, max) == n >= max + 1

RECURSIVE Pow2(_)
Pow2(n) == IF n = 0 THEN 1 ELSE 2 * Pow2(n - 1)

\* wait_with_backoff(attempt, base_delay) and the sleep after a 429, in
\* seconds, with the jitter at either end of its range:
\* base_delay * 2 ** min(attempt, 6) + uniform(0, 2), base_delay 5.0 after
\* a connection error and 2.0 otherwise; 30 + uniform(0, 10) after a 429.
PersistentDelays(o, a) ==
    IF o = "429" THEN {30, 40}
    ELSE LET base_delay == IF o = "connection" THEN 5 ELSE 2 IN
         {base_delay * Pow2(Min(a, 6)) + j : j \in {0, 2}}

\* wait_exponential(multiplier=1, min=1, max=20) after failed attempt n.
WaitExponential(n) ==
    LET w == Pow2(n - 1) IN IF w < 1 THEN 1 ELSE Min(w, 20)

\* The sleeps of swap_images_robust and update_price_robust after a failed
\* iteration a: none when the function returns instead.
UltraDelays(l, o, a) ==
    IF o = "throttled"
    THEN {(IF l = "swap_images_robust" THEN 10 ELSE 15) + a * 5}
    ELSE IF ~(a < UltraMaxRetries - 1) THEN {0}
    ELSE IF o = "exception" THEN {5 + a * 3}
    ELSE IF l = "swap_images_robust" THEN {5, 3 + a * 2}
    ELSE {3 + a * 2}

\* "self.total_requests += 1", the count kept up to MaxRequests.
CountRequest(n) == Min(MaxRequests, n + 1)

\* What the shop does when it serves the request of caller c: a position
\* PUT moves the image, the price PUT writes cost * 1.75.
Served(c) ==
    CASE c = "swap_images_persistent.put1" ->
           /\ remoteImages' =
                [remoteImages EXCEPT ![Cur] = MoveTo(@, snap[1], 2)]
           /\ UNCHANGED remotePrice
      [] c = "swap_images_persistent.put2" ->
           /\ remoteImages' =
                [remoteImages EXCEPT ![Cur] = MoveTo(@, snap[2], 1)]
           /\ UNCHANGED remotePrice
      [] c = "update_price_persistent" ->
           /\ remotePrice' = [remotePrice EXCEPT ![Cur] = "1.75"]
           /\ UNCHANGED remoteImages
      [] OTHER -> UNCHANGED remoteVars

\* "while attempt < max_retries", "for attempt in range(max_retries)",
\* stop_after_attempt: no further attempt after n of them.
Exhausted(n, max) == n >= max

\* make_request_persistent: one pass of the while loop.  Every failure
\* counts the attempt; after the last one the loop ends and None is returned.
PersistentAttempt ==
    /\ loop = "make_request_persistent" /\ pc = "retrying"
    /\ ~Exhausted(attempt, MaxRetries)
    /\ \E o \in {"ok", "429", "rejected", "error", "timeout", "connection",
                 "exception"} :
        /\ o = "429" => rate_limited_count < MaxRateLimited
        /\ total_requests' = CountRequest(total_requests)
        /\ attempts' = attempts + 1
        /\ lastOutcome' = o
        /\ rate_limited_count' =
             IF o = "429" THEN rate_limited_count + 1 ELSE rate_limited_count
        /\ IF o = "ok"
           THEN /\ Served(caller)
                /\ result' = "response"
                /\ pc' = "returned"
                /\ delay' = 0
                /\ UNCHANGED attempt
           ELSE /\ delay' \in PersistentDelays(o, attempt)
                /\ attempt' = attempt + 1
                /\ IF Exhausted(attempt + 1, MaxRetries)
                   THEN result' = "none" /\ pc' = "returned"
                   ELSE UNCHANGED <<result, pc>>
                /\ UNCHANGED remoteVars
    /\ UNCHANGED <<catalogVars, ledgerVars, fetchVars, idx, imgOk,
                   priceOk, resp1ok, snap, runVars, calls, lastCall, clean,
                   swaps, partial, killedProcessed, planVars, rateVars, loop,
                   caller>>

\* graphql_request of venture_design_updates.py under tenacity: an attempt
\* that raises RequestException or ShopifyError is repeated until
\* stop_after_attempt(6), then the error is re-raised; any other exception
\* is raised at once.
GraphqlAttempt ==
    /\ loop = "graphql_request" /\ pc = "retrying"
    /\ \E o \in {"ok", "429", "rejected", "error", "graphql_errors",
                 "request_exception", "other_exception"} :
        /\ attempts' = attempts + 1
        /\ attempt' = attempt + 1
        /\ lastOutcome' = o
        /\ IF o = "ok"
           THEN result' = "data" /\ pc' = "returned" /\ delay' = 0
           ELSE IF o = "other_exception" \/ Exhausted(attempt + 1, StopAfterAttempt)
           THEN result' = "raised" /\ pc' = "returned" /\ delay' = 0
           ELSE delay' = WaitExponential(attempt + 1) /\ UNCHANGED <<result, pc>>
    /\ UNCHANGED <<catalogVars, remoteVars, ledgerVars, fetchVars, idx, imgOk,
                   priceOk, resp1ok, snap, runVars, calls, lastCall, clean,
                   swaps, partial, killedProcessed, planVars, rateVars, loop,
                   rate_limited_count, caller, total_requests>>

\* The retry loops of the ultra updater, of one shape.
UltraLoops == {"swap_images_robust", "update_price_robust"}

\* swap_images_robust, update_price_robust: one iteration of
\* "for attempt in range(max_retries)".
\* A 429 continues; a failed response or an exception continues unless it
\* is the last attempt; when the loop runs out the function returns False.
SubStepIteration ==
    /\ loop \in UltraLoops /\ pc = "retrying"
    /\ ~Exhausted(attempt, UltraMaxRetries)
    /\ \E o \in {"success", "throttled", "rejected", "failed", "exception"} :
        /\ attempts' = attempts + 1
        /\ lastOutcome' = o
        /\ IF o = "success"
           THEN /\ result' = "true"
                /\ pc' = "returned"
                /\ delay' = 0
                /\ UNCHANGED attempt
           ELSE /\ attempt' = attempt + 1
                /\ delay' \in UltraDelays(loop, o, attempt)
                /\ IF \/ Exhausted(attempt + 1, UltraMaxRetries)
                      \/ o # "throttled" /\ ~(attempt < UltraMaxRetries - 1)
                   THEN result' = "false" /\ pc' = "returned"
                   ELSE UNCHANGED <<result, pc>>
    /\ UNCHANGED <<catalogVars, remoteVars, ledgerVars, fetchVars, idx, imgOk,
                   priceOk, resp1ok, snap, runVars, calls, lastCall, clean,
                   swaps, partial, killedProcessed, planVars, rateVars, loop,
                   rate_limited_count, caller, total_requests>>

Next ==
    \/ Launch
    \/ Kill
    \/ RobustFetch
    \/ RobustNext
    \/ RobustImgGet
    \/ RobustImgPut1
    \/ RobustImgPut2
    \/ RobustImgRecord
    \/ RobustPrice
    \/ RobustPricePut
    \/ RobustPriceRecord
    \/ RobustFinal
    \/ UltraFetch
    \/ UltraNext
    \/ UltraImgGet
    \/ UltraImgPut1
    \/ UltraImgPut2
    \/ UltraPricePut
    \/ UltraFinal
    \/ UltraFinalSave
    \/ PersFetch
    \/ PersNext
    \/ PersImgGet
    \/ PersImgPut1
    \/ PersImgPut2
    \/ PersPricePut
    \/ PersFinal
    \/ ImpFetch
    \/ ImpNext
    \/ ImpImgGet
    \/ ImpImgPut1
    \/ ImpImgPut2
    \/ ImpPricePut
    \/ ImpFinal

Spec == Init /\ [][Next]_vars

\* The updaters the idempotence property is stated for, run to completion
\* and started again.
RerunScripts == {"robust", "final", "vdu"}

InitRerun ==
    /\ script \in RerunScripts
    /\ pc = "off"
    /\ CatalogInit
    /\ ProcessInit
    /\ PlanIdle
    /\ RateInit
    /\ RetryIdle

NextRerun ==
    \/ Launch
    \/ RobustFetch
    \/ RobustNext
    \/ RobustImgGet
    \/ RobustImgPut1
    \/ RobustImgPut2
    \/ RobustImgRecord
    \/ RobustPrice
    \/ RobustPricePut
    \/ RobustPriceRecord
    \/ RobustFinal
    \/ PlanLaunch
    \/ FinalFetch
    \/ FinalPlan
    \/ FinalPut1
    \/ FinalPut2
    \/ FinalMeta
    \/ VduFetch
    \/ VduReorder
    \/ VduMeta

SpecRerun == InitRerun /\ [][NextRerun]_vars

\* The pacing of the ultra updater alone: rate_limit_check and the remote
\* call that follows it, against a clock.
InitRate ==
    /\ script = "ultra"
    /\ pc = "check"
    /\ origImages = [i \in Items |-> <<1>>]
    /\ hasCost = [i \in Items |-> FALSE]
    /\ remoteImages = origImages
    /\ remotePrice = [i \in Items |-> "orig"]
    /\ ProcessInit
    /\ PlanIdle
    /\ RateInit
    /\ RetryIdle

NextRate ==
    \/ RateLimitCheck
    \/ RateRequest

SpecRate == InitRate /\ [][NextRate]_vars

\* One execution of each retry loop.
InitRetry ==
    /\ script \in DOMAIN RetryLoop
    /\ pc = "retrying"
    /\ origImages = [i \in Items |-> <<1>>]
    /\ hasCost = [i \in Items |-> FALSE]
    /\ remoteImages = origImages
    /\ remotePrice = [i \in Items |-> "orig"]
    /\ ProcessInit
    /\ PlanIdle
    /\ RateInit
    /\ loop \in IF script = "ultra" THEN UltraLoops ELSE {RetryLoop[script]}
    /\ attempts = 0
    /\ rate_limited_count = 0
    /\ lastOutcome = "none"
    /\ result = "running"
    /\ caller = "none"
    /\ total_requests = 0
    /\ delay = 0

NextRetry ==
    \/ PersistentAttempt
    \/ GraphqlAttempt
    \/ SubStepIteration

SpecRetry == InitRetry /\ [][NextRetry]_vars

\* ------------------------------------------------ the loops around them
\* The loops that call a retry loop again after it has given up, one step
\* per attempt, per return to the caller and per sleep of the caller.
PersistentCallers ==
    <<"fetch_all_products", "swap_images_persistent.get",
      "swap_images_persistent.put1", "swap_images_persistent.put2",
      "update_price_persistent">>

\* The caller entered when this one is left; "none" when the function returns.
NextCaller(c) ==
    CASE c = "swap_images_persistent.get" -> "swap_images_persistent.put1"
      [] c = "swap_images_persistent.put1" -> "swap_images_persistent.put2"
      [] OTHER -> "none"

\* A call of make_request_persistent: "attempt = 0" and the first pass.
EnterRetry ==
    /\ pc' = "retrying"
    /\ attempt' = 0
    /\ attempts' = 0
    /\ result' = "running"

\* The code after "response = self.make_request_persistent(...)" in
\* fetch_all_products, swap_images_persistent and update_price_persistent:
\* without a usable response the caller sleeps and calls again; with one
\* it goes on to its next call or returns.
PersistentCallerReturn ==
    /\ loop = "make_request_persistent" /\ pc = "returned"
    /\ caller # "none"
    /\ \E usable \in BOOLEAN :
        /\ usable => result = "response"
        /\ caller \in {"swap_images_persistent.put1",
                       "swap_images_persistent.put2",
                       "update_price_persistent"}
             => (usable <=> result = "response")
        /\ IF ~usable
           THEN /\ pc' = "sleeping"
                /\ UNCHANGED <<products, cursor, snap, caller, attempt,
                               attempts, result>>
           ELSE IF caller = "fetch_all_products"
           THEN /\ products' = products \o PageOf(cursor)
                /\ IF HasNextPage(cursor)
                   THEN cursor' = cursor + 1 /\ pc' = "sleeping"
                   ELSE pc' = "finished" /\ UNCHANGED cursor
                /\ UNCHANGED <<snap, caller, attempt, attempts, result>>
           ELSE IF caller = "swap_images_persistent.get"
                   /\ Len(remoteImages[Cur]) < 2
           THEN /\ pc' = "finished"
                /\ UNCHANGED <<products, cursor, snap, caller, attempt,
                               attempts, result>>
           ELSE IF NextCaller(caller) # "none"
           THEN /\ caller' = NextCaller(caller)
                /\ snap' = IF caller = "swap_images_persistent.get"
                           THEN <<remoteImages[Cur][1], remoteImages[Cur][2]>>
                           ELSE snap
                /\ EnterRetry
                /\ UNCHANGED <<products, cursor>>
           ELSE /\ pc' = "finished"
                /\ UNCHANGED <<products, cursor, snap, caller, attempt,
                               attempts, result>>
    /\ UNCHANGED <<catalogVars, remoteVars, ledgerVars, remaining,
                   idx, imgOk, priceOk, resp1ok, runVars, calls,
                   lastCall, clean, swaps, partial, killedProcessed, planVars,
                   rateVars, loop, rate_limited_count, lastOutcome,
                   total_requests, delay>>

\* time.sleep(...) of the caller, then "continue".
PersistentCallerSleep ==
    /\ loop = "make_request_persistent" /\ pc = "sleeping"
    /\ EnterRetry
    /\ UNCHANGED <<catalogVars, remoteVars, ledgerVars, fetchVars, idx, imgOk,
                   priceOk, resp1ok, snap, runVars, calls, lastCall, clean,
                   swaps, partial, killedProcessed, planVars, rateVars, loop,
                   rate_limited_count, lastOutcome, caller, total_requests, delay>>

\* run() of the ultra updater, one pass of the fetch loop: one call of
\* fetch_venture_products_batch, which makes one request and returns
\* ([], cursor) on every failure.
UltraFetchPass ==
    /\ loop = "fetch_venture_products_batch" /\ pc = "retrying"
    /\ \E o \in {"ok", "429", "error", "graphql_errors", "exception"} :
        /\ attempts' = 1
        /\ lastOutcome' = o
        /\ IF o = "ok"
           THEN /\ products' = products \o PageOf(cursor)
                /\ IF HasNextPage(cursor)
                   THEN cursor' = cursor + 1 /\ pc' = "sleeping"
                   ELSE cursor' = 0 /\ pc' = "finished"
           ELSE /\ pc' = IF cursor = 0 THEN "finished" ELSE "sleeping"
                /\ UNCHANGED <<products, cursor>>
    /\ UNCHANGED <<catalogVars, remoteVars, ledgerVars, remaining, idx,
                   localVars, runVars, calls, lastCall, clean, swaps, partial,
                   killedProcessed, planVars, rateVars, loop,
                   rate_limited_count, result, caller, total_requests, delay>>

\* "time.sleep(2)" at the end of the pass, then the next pass.
UltraFetchSleep ==
    /\ loop = "fetch_venture_products_batch" /\ pc = "sleeping"
    /\ pc' = "retrying"
    /\ UNCHANGED <<catalogVars, remoteVars, ledgerVars, fetchVars, idx,
                   localVars, runVars, calls, lastCall, clean, swaps, partial,
                   killedProcessed, planVars, rateVars, retryVars>>

\* process_product of the ultra updater after swap_images_robust returned:
\* whatever it returned, the item goes on.
UltraSwapReturned ==
    /\ loop = "swap_images_robust" /\ pc = "returned"
    /\ caller = "process_product"
    /\ pc' = "finished"
    /\ UNCHANGED <<catalogVars, remoteVars, ledgerVars, fetchVars, idx,
                   localVars, runVars, calls, lastCall, clean, swaps, partial,
                   killedProcessed, planVars, rateVars, retryVars>>

LiveCallers ==
    [c \in {PersistentCallers[i] : i \in {1, 2, 5}} |-> "make_request_persistent"]
    @@ [c \in {"run"} |-> "fetch_venture_products_batch"]
    @@ [c \in {"process_product"} |-> "swap_images_robust"]

\* One caller's loop, entered at its first call; the loops of a product's
\* sub-steps run on the first product of the catalogue.
InitLive ==
    /\ caller \in DOMAIN LiveCallers
    /\ loop = LiveCallers[caller]
    /\ script = IF loop = "make_request_persistent" THEN "persistent" ELSE "ultra"
    /\ pc = "retrying"
    /\ origImages \in [Items -> ImageLists]
    /\ hasCost = [i \in Items |-> TRUE]
    /\ remoteImages = origImages
    /\ remotePrice = [i \in Items |-> "orig"]
    /\ ProcessIdle
    /\ products = IF caller \in {"fetch_all_products", "run"}
                  THEN <<>> ELSE Catalog
    /\ remaining = products
    /\ idx = IF products = <<>> THEN 0 ELSE 1
    /\ PlanIdle
    /\ RateInit
    /\ attempts = 0
    /\ rate_limited_count = 0
    /\ lastOutcome = "none"
    /\ result = "running"
    /\ total_requests = 0
    /\ delay = 0

NextLive ==
    \/ PersistentAttempt
    \/ PersistentCallerReturn
    \/ PersistentCallerSleep
    \/ SubStepIteration
    \/ UltraSwapReturned
    \/ UltraFetchPass
    \/ UltraFetchSleep

\* The process always takes its next step; what the remote answers is free.
SpecLive == InitLive /\ [][NextLive]_vars /\ WF_vars(NextLive)

\* ------------------------------- persistent_venture_fix.py, attempt by attempt
\* run(): the loop head and the start of process_product_persistent.  In a
\* dry run both sub-steps return at once.
PersistentRunNext ==
    /\ script = "persistent" /\ pc = "next"
    /\ IF idx = Len(remaining)
       THEN /\ pc' = "done"
            /\ UNCHANGED <<idx, caller, attempt, attempts, result>>
       ELSE LET id == remaining[idx + 1] IN
            /\ idx' = idx + 1
            /\ IF IsProcessed(id)
               THEN UNCHANGED <<pc, caller, attempt, attempts, result>>
               ELSE IF dryRun
               THEN /\ caller' = "update_price_persistent"
                    /\ pc' = "finished"
                    /\ UNCHANGED <<attempt, attempts, result>>
               ELSE /\ caller' = "swap_images_persistent.get"
                    /\ EnterRetry
    /\ UNCHANGED <<catalogVars, remoteVars, ledgerVars, fetchVars, imgOk,
                   priceOk, resp1ok, snap, runVars, calls, lastCall, clean,
                   swaps, partial, killedProcessed, planVars, rateVars, loop,
                   rate_limited_count, lastOutcome, total_requests,
                   delay>>

\* process_product_persistent after a sub-step has returned: the price
\* update when the swap is done and the variant has a cost, else
\* save_progress and back to the loop head.
PersistentProcessProduct ==
    /\ script = "persistent" /\ pc = "finished"
    /\ caller \notin {"none", "fetch_all_products"}
    /\ IF caller # "update_price_persistent" /\ hasCost[Cur] /\ ~dryRun
       THEN /\ caller' = "update_price_persistent"
            /\ EnterRetry
            /\ UNCHANGED ledgerVars
       ELSE /\ mem' = PersSaveProgress(mem, Cur)
            /\ disk' = mem'
            /\ pc' = "next"
            /\ caller' = "none"
            /\ UNCHANGED <<attempt, attempts, result>>
    /\ UNCHANGED <<catalogVars, remoteVars, fetchVars, idx, imgOk, priceOk,
                   resp1ok, snap, runVars, calls, lastCall, clean, swaps,
                   partial, killedProcessed, planVars, rateVars, loop,
                   rate_limited_count, lastOutcome, total_requests,
                   delay>>

\* The scenario: three products enumerated in one page.
ScenarioSize == 3
ScenarioCatalog == SubSeq(AllIds, 1, ScenarioSize)
ScenarioIds == {ScenarioCatalog[i] : i \in 1..ScenarioSize}

MutatingCallers ==
    {"swap_images_persistent.put1", "swap_images_persistent.put2",
     "update_price_persistent"}

\* The remote of the scenario: the first attempt of the first mutating call
\* of the second product is answered 429, every other attempt succeeds.
ScenarioAnswer ==
    IF idx = 2 /\ caller \in MutatingCallers /\ attempt = 0
       /\ rate_limited_count = 0
    THEN "429" ELSE "ok"

\* run() after fetch_all_products has returned the three products from its
\* one page request, with an empty progress file.
InitScenario ==
    /\ script = "persistent"
    /\ pc = "next"
    /\ origImages \in [ScenarioIds -> ImageLists]
    /\ hasCost \in [ScenarioIds -> BOOLEAN]
    /\ remoteImages = origImages
    /\ remotePrice = [i \in ScenarioIds |-> "orig"]
    /\ ProcessIdle
    /\ products = ScenarioCatalog
    /\ remaining = ScenarioCatalog
    /\ idx = 0
    /\ PlanIdle
    /\ RateInit
    /\ loop = "make_request_persistent"
    /\ caller = "none"
    /\ attempts = 0
    /\ rate_limited_count = 0
    /\ lastOutcome = "none"
    /\ result = "running"
    /\ total_requests = 1
    /\ delay = 0

NextScenario ==
    \/ PersistentRunNext
    \/ PersistentAttempt /\ lastOutcome' = ScenarioAnswer
    \/ PersistentCallerReturn /\ pc' # "sleeping"
    \/ PersistentProcessProduct

SpecScenario == InitScenario /\ [][NextScenario]_vars

\* One applying run of the ultra updater, started with an empty progress
\* file, its rate_limit_check calls and its requests as steps of their own.
InitAcquire ==
    /\ script = "ultra"
    /\ pc = "fetch"
    /\ CatalogInit
    /\ ProcessInit
    /\ PlanIdle
    /\ RateInit
    /\ RetryIdle

NextAcquire ==
    \/ UltraAcquire
    \/ UltraPageCall
    \/ UltraNext
    \/ UltraGetCall
    \/ UltraPut1Call
    \/ UltraPut2Call
    \/ UltraPriceCall
    \/ UltraFinal
    \/ UltraFinalSave

SpecAcquire == InitAcquire /\ [][NextAcquire]_vars

\* ------------------------------------------------------------ cancellation
\* The positions inside process_product_persistent / process_product.
ItemPcs == {"img_get", "img_put1", "img_put2", "price_put", "final"}

\* The request that is on the wire at position p, "none" for a read or no
\* request.
InFlight(p) ==
    CASE p = "img_put1" -> "put1"
      [] p = "img_put2" -> "put2"
      [] p = "price_put" -> "price"
      [] OTHER -> "none"

\* The shop serves the request that was on the wire at position p.
Landed(p) ==
    CASE p = "img_put1" ->
           /\ remoteImages' =
                [remoteImages EXCEPT ![Cur] = MoveTo(@, snap[1], 2)]
           /\ UNCHANGED remotePrice
      [] p = "img_put2" ->
           /\ remoteImages' =
                [remoteImages EXCEPT ![Cur] = MoveTo(@, snap[2], 1)]
           /\ UNCHANGED remotePrice
      [] p = "price_put" ->
           /\ remotePrice' = [remotePrice EXCEPT ![Cur] = "1.75"]
           /\ UNCHANGED remoteImages
      [] OTHER -> UNCHANGED remoteVars

\* The signal arrives at the current position and the exception it raises
\* unwinds the stack up to the handler, which leaves the run at position to.
\* No statement of the unwound frames runs: the response of the request on
\* the wire is never read, save_progress is not called.  The request itself
\* may have reached the shop or not.
Interrupted(to) ==
    /\ interrupted = "none"
    /\ interrupted' = pc
    /\ pc' = to
    /\ \E landed \in BOOLEAN :
        IF landed /\ InFlight(pc) # "none"
        THEN Landed(pc) /\ Issue(Cur, InFlight(pc), "exception")
        ELSE UNCHANGED remoteVars /\ Local
    /\ UNCHANGED <<catalogVars, ledgerVars, fetchVars, idx, localVars,
                   runVars, swaps, partial, killedProcessed, to_swap,
                   to_update, torn, limit, superVars, reportVars, rateVars, retryVars>>

\* persistent_venture_fix.py: KeyboardInterrupt.  Inside
\* process_product_persistent it is caught by run(), which breaks out of the
\* loop and prints the final status; anywhere else it is caught by main(),
\* which prints "Stopped by user".
PersKeyboardInterrupt ==
    /\ script = "persistent"
    /\ pc \notin {"off", "done"}
    /\ Interrupted(IF pc \in ItemPcs THEN "done" ELSE "off")

\* railway_start.py signal_handler, registered for SIGINT and SIGTERM around
\* ImprovedVentureUpdater.run(): sys.exit(0).  SystemExit is caught neither
\* by "except Exception" in run() nor by the loop of main().
signal_handler ==
    /\ script = "improved"
    /\ pc \notin {"off", "done"}
    /\ Interrupted("off")

InitCancel ==
    /\ script \in {"persistent", "improved"}
    /\ pc = "fetch"
    /\ CatalogInit
    /\ ProcessInit
    /\ PlanIdle
    /\ RateInit
    /\ RetryIdle

NextCancel ==
    \/ PersFetch
    \/ PersNext
    \/ PersImgGet
    \/ PersImgPut1
    \/ PersImgPut2
    \/ PersPricePut
    \/ PersFinal
    \/ ImpFetch
    \/ ImpNext
    \/ ImpImgGet
    \/ ImpImgPut1
    \/ ImpImgPut2
    \/ ImpPricePut
    \/ ImpFinal
    \/ PersKeyboardInterrupt
    \/ signal_handler

SpecCancel == InitCancel /\ [][NextCancel]_vars

\* ------------------------------------------------- the progress file, torn
\* The next statement of the process is a save_progress call.
Saving ==
    CASE script = "robust" ->
           \/ pc \in {"img_mark", "img_fail", "price_mark", "price_fail"}
           \/ pc = "final" /\ RobustAllOk
      [] script = "ultra" ->
           \/ pc = "final_save"
           \/ /\ pc = "final"
              /\ UltraSaveDue(IF UltraOverallSuccess
                              THEN [mem EXCEPT !.processed = @ \cup {Cur}]
                              ELSE mem)
      [] script \in {"persistent", "improved"} -> pc = "final"
      [] OTHER -> FALSE

\* The process is killed inside save_progress, after open(file, 'w') has
\* truncated the file and before json.dump has written all of it: what is
\* left is empty or a prefix of a JSON object.
KillInSave ==
    /\ Saving
    /\ torn' = TRUE
    /\ disk' = EmptyLedger
    /\ pc' = "off"
    /\ mem' = EmptyLedger
    /\ products' = <<>>
    /\ cursor' = 0
    /\ remaining' = <<>>
    /\ idx' = 0
    /\ imgOk' = FALSE
    /\ priceOk' = FALSE
    /\ resp1ok' = FALSE
    /\ attempt' = 0
    /\ snap' = <<0, 0>>
    /\ lastCall' = NoCall
    /\ killedProcessed' = mem.processed
    /\ calls' = {}
    /\ UNCHANGED <<catalogVars, remoteVars, runVars, clean, swaps, partial,
                   to_swap, to_update, interrupted, limit, superVars, reportVars,
                   rateVars, retryVars>>

\* How main() ends when the constructor raises: robust, ultra and improved
\* print the error and re-raise, persistent prints it and returns.
MainExit(s) == IF s = "persistent" THEN "exit_ok" ELSE "exit_error"

\* main() without --reset on a torn file: json.load in load_progress raises
\* in the constructor, run() is never called.
LoadCorrupt ==
    /\ script \in {"robust", "ultra", "persistent", "improved"}
    /\ pc = "off"
    /\ runNo < MaxRuns
    /\ torn
    /\ runNo' = runNo + 1
    /\ pc' = MainExit(script)
    /\ Local
    /\ UNCHANGED <<catalogVars, remoteVars, ledgerVars, fetchVars, idx,
                   localVars, dryRun, loaded, prevPartial, swaps, partial,
                   killedProcessed, otherVars>>

\* main() without --reset on a file that is whole or absent.
LaunchNoReset ==
    /\ ~torn
    /\ Launch
    /\ disk' = disk
    /\ partial' = partial

InitTorn ==
    /\ script \in {"robust", "ultra", "persistent", "improved"}
    /\ pc = "off"
    /\ CatalogInit
    /\ ProcessInit
    /\ PlanIdle
    /\ RateInit
    /\ RetryIdle

NextTorn ==
    \/ LaunchNoReset
    \/ Kill
    \/ KillInSave
    \/ LoadCorrupt
    \/ RobustFetch
    \/ RobustNext
    \/ RobustImgGet
    \/ RobustImgPut1
    \/ RobustImgPut2
    \/ RobustImgRecord
    \/ RobustPrice
    \/ RobustPricePut
    \/ RobustPriceRecord
    \/ RobustFinal
    \/ UltraFetch
    \/ UltraNext
    \/ UltraImgGet
    \/ UltraImgPut1
    \/ UltraImgPut2
    \/ UltraPricePut
    \/ UltraFinal
    \/ UltraFinalSave
    \/ PersFetch
    \/ PersNext
    \/ PersImgGet
    \/ PersImgPut1
    \/ PersImgPut2
    \/ PersPricePut
    \/ PersFinal
    \/ ImpFetch
    \/ ImpNext
    \/ ImpImgGet
    \/ ImpImgPut1
    \/ ImpImgPut2
    \/ ImpPricePut
    \/ ImpFinal

SpecTorn == InitTorn /\ [][NextTorn]_vars

\* ------------------------------------------------------- the swap, alone
\* Image lists of up to MaxImages distinct images, in every order.
SwapLists ==
    {s \in UNION {[1..n -> 1..MaxImages] : n \in 1..MaxImages} :
        \A i, j \in DOMAIN s : i # j => s[i] # s[j]}

\* swap_product_images is called for the first product.
InitSwap ==
    /\ script = "robust"
    /\ pc = "img_get"
    /\ origImages \in {[i \in Items |-> l] : l \in SwapLists}
    /\ hasCost = [i \in Items |-> FALSE]
    /\ remoteImages = origImages
    /\ remotePrice = [i \in Items |-> "orig"]
    /\ ProcessIdle
    /\ products = Catalog
    /\ remaining = Catalog
    /\ idx = 1
    /\ PlanIdle
    /\ RateInit
    /\ RetryIdle

NextSwap ==
    \/ RobustImgGet
    \/ RobustImgPut1
    \/ RobustImgPut2

SpecSwap == InitSwap /\ [][NextSwap]_vars

\* ------------------------------------------------- fix_venture_design.py
\* main(): with --resume the list in logs/venture_processed.json is read
\* into already_processed; the enumeration follows.
FixLaunch ==
    /\ script = "fix"
    /\ pc \in {"off", "done"}
    /\ runNo < MaxRuns
    /\ \E dr \in DryRuns, resume \in BOOLEAN :
        /\ dryRun' = dr
        /\ loaded' = IF resume THEN disk.processed ELSE {}
        /\ clean' = (clean /\ ~dr)
    /\ runNo' = runNo + 1
    /\ pc' = "fetch"
    /\ products' = <<>>
    /\ cursor' = 0
    /\ idx' = 0
    /\ to_swap' = <<>>
    /\ to_update' = <<>>
    /\ calls' = {}
    /\ lastCall' = NoCall
    /\ UNCHANGED <<catalogVars, remoteVars, ledgerVars, remaining, localVars,
                   prevPartial, swaps, partial, killedProcessed, interrupted,
                   torn, limit, superVars, reportVars, rateVars, retryVars>>

\* main(), plan changes: the variants with a cost whose kostpris metafield
\* differs from cost * 1.75.
FixKostpris(ps) ==
    SelectSeq(ps, LAMBDA p : hasCost[p] /\ remotePrice[p] # "1.75")

\* main(), the enumeration loop: one page; graphql_request raises on a
\* failed page and main() ends.  After the last page the changes are planned
\* from the pages: every product with two media is swapped.
FixFetch ==
    /\ script = "fix" /\ pc = "fetch"
    /\ \E o \in {"ok", "raised"} :
        /\ Issue(NoItem, "page", o)
        /\ IF o = "ok"
           THEN LET ps == products \o PageOf(cursor) IN
                /\ products' = ps
                /\ IF HasNextPage(cursor)
                   THEN /\ cursor' = cursor + 1
                        /\ UNCHANGED <<pc, to_swap, to_update>>
                   ELSE /\ to_swap' = VduSwaps(ps)
                        /\ to_update' = FixKostpris(ps)
                        /\ pc' = ApplyPc(VduSwaps(ps), FixKostpris(ps),
                                         "reorder")
                        /\ UNCHANGED cursor
           ELSE /\ pc' = "off"
                /\ UNCHANGED <<products, cursor, to_swap, to_update>>
    /\ UNCHANGED <<catalogVars, remoteVars, ledgerVars, remaining, idx,
                   localVars, runVars, swaps, partial, killedProcessed,
                   interrupted, torn, limit, superVars, reportVars, rateVars,
                   retryVars>>

\* main(), the swap loop: productReorderMedia moves the second media to
\* position 1; an error is printed and the loop goes on.
FixSwap ==
    /\ script = "fix" /\ pc = "reorder"
    /\ LET e == to_swap[idx + 1] IN
       \E o \in {"ok", "error", "raised"} :
        /\ Issue(e[1], "reorder", o)
        /\ remoteImages' =
             IF o = "ok"
             THEN [remoteImages EXCEPT ![e[1]] = MoveTo(@, e[3], 1)]
             ELSE remoteImages
        /\ swaps' = IF o = "ok" THEN Bump(swaps, e[1]) ELSE swaps
        /\ idx' = AfterIdx(idx + 1)
        /\ pc' = AfterSwap(idx + 1, "reorder")
    /\ UNCHANGED <<catalogVars, remotePrice, ledgerVars, fetchVars, localVars,
                   runVars, partial, killedProcessed, otherVars>>

\* main(), the kostpris loop: one metafieldsSet batch; a failed batch is
\* printed and the loop goes on.  idx is the batch offset.
FixMeta ==
    /\ script = "fix" /\ pc = "meta"
    /\ \E o \in {"ok", "error", "raised"} :
        /\ Issue(Batch(idx)[1], "meta", o)
        /\ remotePrice' = IF o = "ok" THEN WritePrices(Batch(idx), "1.75")
                          ELSE remotePrice
        /\ idx' = idx + BatchSize
        /\ pc' = IF idx + BatchSize < Len(to_update) THEN "meta" ELSE "done"
    /\ UNCHANGED <<catalogVars, remoteImages, ledgerVars, fetchVars, localVars,
                   runVars, swaps, partial, killedProcessed, otherVars>>

\* Before the first run somebody puts a list of products into
\* logs/venture_processed.json; the script itself never writes the file.
FixListProvided ==
    /\ script = "fix"
    /\ pc = "off"
    /\ runNo = 0
    /\ disk = EmptyLedger
    /\ \E ids \in SUBSET Items \ {{}} :
        disk' = [disk EXCEPT !.processed = ids]
    /\ Local
    /\ UNCHANGED <<catalogVars, remoteVars, mem, fetchVars, idx, localVars,
                   runVars, swaps, partial, killedProcessed, otherVars, pc>>

InitFix ==
    /\ script = "fix"
    /\ pc = "off"
    /\ CatalogInit
    /\ ProcessInit
    /\ PlanIdle
    /\ RateInit
    /\ RetryIdle

NextFix ==
    \/ FixListProvided
    \/ FixLaunch
    \/ FixFetch
    \/ FixSwap
    \/ FixMeta

SpecFix == InitFix /\ [][NextFix]_vars

\* ------------------- ultra_robust_venture_fix.py, the failure counter
\* The remote calls that follow a rate_limit_check.
UltraKinds == {"page", "get", "put1", "put2", "price"}

\* The call that can follow call k answered with o: the next page or the
\* same page again, the next request of the swap, the next attempt of a
\* retry loop, or the first request for the next sub-step or product.
FollowingKinds(k, o) ==
    CASE k = "none" -> {"page"}
      [] k = "page" -> IF o = "ok" THEN {"page", "get", "price"} ELSE {"page"}
      [] k = "get" -> IF o = "ok" THEN {"put1", "get", "price"}
                      ELSE {"get", "price"}
      [] k = "put1" -> IF o \in {"ok", "error"} THEN {"put2"}
                       ELSE {"get", "price"}
      [] OTHER -> {"get", "price"}

\* self.consecutive_failures after call k was answered with o: the except
\* branches count, a parsed page, a swap with both PUTs accepted and an
\* accepted price PUT reset; a 429 and a response that is not ok leave it.
FailureCount(k, o, r1, cf) ==
    CASE o = "exception" -> Min(MaxFailures, cf + 1)
      [] o = "ok" /\ k \in {"page", "price"} -> 0
      [] o = "ok" /\ k = "put2" /\ r1 -> 0
      [] OTHER -> cf

ThrottleSleep == 10

\* time.sleep after a response, before the next rate_limit_check, in the
\* first attempt of a retry loop.
SleepAfter(k, o) ==
    CASE o = "throttled" -> ThrottleSleep * TicksPerSecond
      [] o = "ok" /\ k = "put1" -> TicksPerSecond
      [] OTHER -> 0

\* A request of fetch_venture_products_batch, swap_images_robust or
\* update_price_robust and the code up to the next rate_limit_check.
UltraRequest ==
    /\ script = "ultra" /\ pc = "call"
    /\ \E k \in FollowingKinds(lastCall.kind, lastOutcome), o \in Outcomes :
        /\ Issue(NoItem, k, o)
        /\ lastOutcome' = o
        /\ resp1ok' = IF k = "put1" THEN o = "ok" ELSE resp1ok
        /\ consecutive_failures' =
             FailureCount(k, o, resp1ok, consecutive_failures)
        /\ clock' = clock + SleepAfter(k, o)
    /\ pc' = "check"
    /\ acquired' = 0
    /\ UNCHANGED <<catalogVars, remoteVars, ledgerVars, fetchVars, idx, imgOk,
                   priceOk, attempt, snap, runVars, swaps, partial,
                   killedProcessed, planVars, requests_this_minute,
                   last_minute_reset, winStart, winCount, loop, attempts,
                   rate_limited_count, result, caller, total_requests, delay>>

NextBackoff ==
    \/ RateLimitCheck
    \/ UltraRequest

SpecBackoff == InitRate /\ [][NextBackoff]_vars

\* ------------------------------------------------- --limit / --limit-products
LimitScripts == {"final", "fix", "ultra", "vdu"}

\* The values of --limit N, N > 0.
Limits == 1..MaxItems

\* Pages requested at most; the last of them reports no next page.
MaxPages == 2

\* The k Venture Design products of the next page when n were enumerated:
\* a page holds the products of every vendor, the loops keep the Venture
\* Design ones.
NextItems(n, k) == SubSeq(Catalog, n + 1, n + k)

FirstN(ps, n) == IF Len(ps) > n THEN SubSeq(ps, 1, n) ELSE ps

\* The enumeration loop of final_venture_fix.py and fix_venture_design.py:
\* append the page, leave the loop when there is no next page, otherwise
\* cut the list at the limit once it is reached.
LimitFetch ==
    /\ script \in {"final", "fix"} /\ pc = "fetch"
    /\ \E k \in 0..(MaxItems - Len(products)), hasNextPage \in BOOLEAN :
        LET ps == products \o NextItems(Len(products), k) IN
        /\ cursor + 1 = MaxPages => ~hasNextPage
        /\ Issue(NoItem, "page", "ok")
        /\ IF ~hasNextPage
           THEN /\ products' = ps
                /\ pc' = IF ps = <<>> THEN "done" ELSE "plan"
                /\ UNCHANGED cursor
           ELSE /\ cursor' = cursor + 1
                /\ IF limit # 0 /\ Len(ps) >= limit
                   THEN /\ products' = FirstN(ps, limit)
                        /\ pc' = "plan"
                   ELSE /\ products' = ps
                        /\ UNCHANGED pc
    /\ UNCHANGED <<catalogVars, remoteVars, ledgerVars, remaining, idx,
                   localVars, runVars, swaps, partial, killedProcessed,
                   otherVars>>

\* fix_venture_design.py, the planning loop over the enumerated products.
FixPlan ==
    /\ script = "fix" /\ pc = "plan"
    /\ Local
    /\ to_swap' = VduSwaps(products)
    /\ to_update' = FixKostpris(products)
    /\ pc' = ApplyPc(VduSwaps(products), FixKostpris(products), "reorder")
    /\ UNCHANGED <<catalogVars, remoteVars, ledgerVars, fetchVars, idx,
                   localVars, runVars, swaps, partial, killedProcessed,
                   interrupted, torn, limit, superVars, reportVars, rateVars,
                   retryVars>>

\* run() of ultra_robust_venture_fix.py with a limit: extend the list with
\* the batch, cut it at the limit and leave the loop once it is reached,
\* leave the loop when the batch reported no next cursor.
UltraLimitFetch ==
    /\ script = "ultra" /\ pc = "fetch"
    /\ \E k \in 0..(MaxItems - Len(products)), hasNextPage \in BOOLEAN :
        LET ps == products \o NextItems(Len(products), k) IN
        /\ cursor + 1 = MaxPages => ~hasNextPage
        /\ Issue(NoItem, "page", "ok")
        /\ IF k = 0 /\ ~hasNextPage
           THEN StartLoop(products) /\ UNCHANGED cursor
           ELSE IF limit # 0 /\ Len(ps) >= limit
                THEN StartLoop(FirstN(ps, limit)) /\ UNCHANGED cursor
                ELSE IF ~hasNextPage
                     THEN StartLoop(ps) /\ UNCHANGED cursor
                     ELSE /\ products' = ps
                          /\ cursor' = cursor + 1
                          /\ UNCHANGED <<pc, remaining, idx>>
    /\ UNCHANGED <<catalogVars, remoteVars, ledgerVars, localVars, runVars,
                   swaps, partial, killedProcessed, otherVars>>

\* venture_design_updates.py: fetch_venture_products reads every page, the
\* planning loop of main() stops at product number limit_products + 1.
VduLimitFetch ==
    /\ script = "vdu" /\ pc = "fetch"
    /\ \E k \in 0..(MaxItems - Len(products)), hasNextPage \in BOOLEAN :
        LET ps == products \o NextItems(Len(products), k)
            planned == IF limit # 0 THEN FirstN(ps, limit) ELSE ps
        IN
        /\ cursor + 1 = MaxPages => ~hasNextPage
        /\ Issue(NoItem, "page", "ok")
        /\ products' = ps
        /\ IF hasNextPage
           THEN /\ cursor' = cursor + 1
                /\ UNCHANGED <<pc, planVars>>
           ELSE /\ to_swap' = VduSwaps(planned)
                /\ to_update' = VduMetafields(planned)
                /\ pc' = ApplyPc(VduSwaps(planned), VduMetafields(planned),
                                 "reorder")
                /\ UNCHANGED <<cursor, interrupted, torn, limit, superVars, reportVars>>
    /\ UNCHANGED <<catalogVars, remoteVars, ledgerVars, remaining, idx,
                   localVars, runVars, swaps, partial, killedProcessed,
                   rateVars, retryVars>>

\* An --apply run with --limit N on a catalogue of products with two
\* images and a cost.
InitLimit ==
    /\ script \in LimitScripts
    /\ pc = "fetch"
    /\ origImages = [i \in Items |-> <<1, 2>>]
    /\ hasCost = [i \in Items |-> TRUE]
    /\ remoteImages = origImages
    /\ remotePrice = [i \in Items |-> "orig"]
    /\ ProcessInit
    /\ to_swap = <<>>
    /\ to_update = <<>>
    /\ interrupted = "none"
    /\ torn = FALSE
    /\ limit \in Limits
    /\ swapped = 0
    /\ updated = 0
    /\ farve = [i \in Items |-> "danish"]
    /\ retry_count = 0
    /\ peer = <<>>
    /\ RateInit
    /\ RetryIdle

NextLimit ==
    \/ LimitFetch
    \/ FinalPlan
    \/ FinalPut1
    \/ FinalPut2
    \/ FinalMeta
    \/ FixPlan
    \/ FixSwap
    \/ FixMeta
    \/ UltraLimitFetch
    \/ UltraNext
    \/ UltraImgGet
    \/ UltraImgPut1
    \/ UltraImgPut2
    \/ UltraPricePut
    \/ UltraFinal
    \/ UltraFinalSave
    \/ VduLimitFetch
    \/ VduReorder
    \/ VduMeta

SpecLimit == InitLimit /\ [][NextLimit]_vars

\* ------------------------------------------- translate_farve_metafields.py
\* custom.farve of a product: no metafield, a value that the translation
\* changes, a value that it leaves as it is.
FarveStates == {"missing", "english", "danish"}

FarveBatchSize == 20

\* fetch_all_products_with_farve: one page; graphql_request raises on a
\* failed page and main() ends in its handler.
FarveFetch ==
    /\ script = "farve" /\ pc = "fetch"
    /\ \E o \in {"ok", "raised"} :
        /\ Issue(NoItem, "page", o)
        /\ IF o = "ok"
           THEN /\ products' = products \o PageOf(cursor)
                /\ IF HasNextPage(cursor)
                   THEN cursor' = cursor + 1 /\ UNCHANGED pc
                   ELSE pc' = "analyze" /\ UNCHANGED cursor
           ELSE /\ pc' = "exit_error"
                /\ UNCHANGED <<products, cursor>>
    /\ UNCHANGED <<catalogVars, remoteVars, ledgerVars, remaining, idx,
                   localVars, runVars, swaps, partial, killedProcessed,
                   otherVars>>

\* The phase after the analysis loop: the dry run returns, a run with
\* nothing to update returns, else the batches are sent.
FarveApplyPc(up) == IF dryRun \/ up = <<>> THEN "done" ELSE "meta"

\* main(), the analysis loop, one product.  For a product without the
\* metafield the entry is built with ProductMeta(id, title, handle,
\* metafield_id, metafield_type, metafield_value): the dataclass has three
\* more fields without defaults, the constructor raises TypeError and
\* main() ends in "except Exception" with sys.exit(1).
FarveAnalyze ==
    /\ script = "farve" /\ pc = "analyze"
    /\ Local
    /\ LET id == products[idx + 1]
           up == IF farve[id] = "english" THEN Append(to_update, id)
                 ELSE to_update
       IN
       /\ idx' = IF idx + 1 < Len(products) \/ farve[id] = "missing"
                 THEN idx + 1 ELSE 0
       /\ to_update' = up
       /\ pc' = IF farve[id] = "missing" THEN "exit_error"
                ELSE IF idx + 1 < Len(products) THEN "analyze"
                ELSE FarveApplyPc(up)
    /\ UNCHANGED <<catalogVars, remoteVars, ledgerVars, fetchVars, localVars,
                   runVars, swaps, partial, killedProcessed, to_swap,
                   interrupted, torn, limit, superVars, reportVars, rateVars, retryVars>>

FarveBatch(i) ==
    SubSeq(to_update, i + 1, Min(i + FarveBatchSize, Len(to_update)))

WriteFarve(ids) ==
    [x \in Items |->
        IF \E k \in 1..Len(ids) : ids[k] = x THEN "danish" ELSE farve[x]]

\* main(), apply: one metafieldsSet batch; userErrors are printed and the
\* batch is counted.
FarveMeta ==
    /\ script = "farve" /\ pc = "meta"
    /\ \E o \in {"ok", "error", "raised"} :
        /\ Issue(FarveBatch(idx)[1], "meta", o)
        /\ farve' = IF o = "ok" THEN WriteFarve(FarveBatch(idx)) ELSE farve
        /\ IF o = "raised"
           THEN pc' = "exit_error" /\ UNCHANGED <<idx, updated>>
           ELSE /\ updated' = updated + Len(FarveBatch(idx))
                /\ idx' = idx + FarveBatchSize
                /\ pc' = IF idx + FarveBatchSize < Len(to_update) THEN "meta"
                         ELSE "done"
    /\ UNCHANGED <<catalogVars, remoteVars, ledgerVars, fetchVars, localVars,
                   runVars, swaps, partial, killedProcessed, to_swap,
                   to_update, interrupted, torn, limit, superVars, swapped, rateVars,
                   retryVars>>

\* main() of translate_farve_metafields.py is started.
FarveLaunch ==
    /\ script = "farve"
    /\ pc \in {"off", "done", "exit_error"}
    /\ runNo < MaxRuns
    /\ \E dr \in DryRuns :
        /\ dryRun' = dr
        /\ clean' = (clean /\ ~dr)
    /\ runNo' = runNo + 1
    /\ pc' = "fetch"
    /\ products' = <<>>
    /\ cursor' = 0
    /\ idx' = 0
    /\ to_update' = <<>>
    /\ updated' = 0
    /\ calls' = {}
    /\ lastCall' = NoCall
    /\ UNCHANGED <<catalogVars, remoteVars, ledgerVars, remaining, localVars,
                   loaded, prevPartial, swaps, partial, killedProcessed,
                   to_swap, interrupted, torn, limit, superVars, swapped, farve,
                   rateVars, retryVars>>

ReportScripts == {"final", "vdu", "farve"}

\* The scripts that print the number of changes at the end of a run, on a
\* shop in which nothing has been changed yet.
InitReport ==
    /\ script \in ReportScripts
    /\ pc = "off"
    /\ IF script = "farve"
       THEN /\ origImages = [i \in Items |-> <<1>>]
            /\ hasCost = [i \in Items |-> FALSE]
            /\ farve \in [Items -> FarveStates]
       ELSE /\ origImages \in [Items -> {<<1>>, <<1, 2>>}]
            /\ hasCost \in [Items -> BOOLEAN]
            /\ farve = [i \in Items |-> "danish"]
    /\ remoteImages = origImages
    /\ remotePrice = [i \in Items |-> "orig"]
    /\ ProcessInit
    /\ to_swap = <<>>
    /\ to_update = <<>>
    /\ interrupted = "none"
    /\ torn = FALSE
    /\ limit = 0
    /\ swapped = 0
    /\ updated = 0
    /\ retry_count = 0
    /\ peer = <<>>
    /\ RateInit
    /\ RetryIdle

NextReport ==
    \/ PlanLaunch
    \/ FarveLaunch
    \/ FinalFetch
    \/ FinalPlan
    \/ FinalPut1
    \/ FinalPut2
    \/ FinalMeta
    \/ VduFetch
    \/ VduReorder
    \/ VduMeta
    \/ FarveFetch
    \/ FarveAnalyze
    \/ FarveMeta

SpecReport == InitReport /\ [][NextReport]_vars

\* ------------------------------------------------------- railway_start.py
RailwayMaxRetries == 3

HourSleep == 3600

WaitTimeFlat(k) == 60

\* main(): wait_time = 60 * retry_count
WaitTime(k) == 60 * k

\* main() of railway_start.py is started, by the platform or again after
\* the process has ended.
SupervisorStart ==
    /\ script = "improved"
    /\ pc \in {"off", "reraised"}
    /\ Local
    /\ retry_count' = 0
    /\ lastOutcome' = "none"
    /\ delay' = 0
    /\ pc' = "supervise"
    /\ UNCHANGED <<catalogVars, remoteVars, ledgerVars, fetchVars, idx,
                   localVars, runVars, swaps, partial, killedProcessed,
                   to_swap, to_update, interrupted, torn, limit, reportVars,
                   peer, rateVars, loop, attempts, rate_limited_count, result,
                   caller, total_requests>>

\* main(), one pass of the loop on a progress file that can be read:
\* ImprovedVentureUpdater(domain, token, dry_run=False) loads the file and
\* run() starts with the enumeration.
SupervisorAttempt ==
    /\ script = "improved"
    /\ pc = "supervise"
    /\ retry_count < RailwayMaxRetries
    /\ ~torn
    /\ dryRun' = FALSE
    /\ mem' = disk
    /\ loaded' = disk.processed
    /\ prevPartial' = partial
    /\ pc' = "fetch"
    /\ products' = <<>>
    /\ cursor' = 0
    /\ remaining' = <<>>
    /\ idx' = 0
    /\ imgOk' = FALSE
    /\ priceOk' = FALSE
    /\ resp1ok' = FALSE
    /\ attempt' = 0
    /\ snap' = <<0, 0>>
    /\ calls' = {}
    /\ lastCall' = NoCall
    /\ UNCHANGED <<catalogVars, remoteVars, disk, runNo, clean, swaps, partial,
                   killedProcessed, otherVars>>

\* main(), one pass of the loop on a progress file that cannot be parsed:
\* json.load raises in the constructor, "except Exception" counts the
\* failure and sleeps 60 * retry_count seconds, or raises again after the
\* third.
SupervisorRaised ==
    /\ script = "improved"
    /\ pc = "supervise"
    /\ retry_count < RailwayMaxRetries
    /\ torn
    /\ Local
    /\ retry_count' = retry_count + 1
    /\ lastOutcome' = "raised"
    /\ IF retry_count + 1 < RailwayMaxRetries
       THEN delay' = WaitTime(retry_count + 1) /\ pc' = "backoff"
       ELSE UNCHANGED delay /\ pc' = "reraised"
    /\ UNCHANGED <<catalogVars, remoteVars, ledgerVars, fetchVars, idx,
                   localVars, runVars, swaps, partial, killedProcessed,
                   to_swap, to_update, interrupted, torn, limit, reportVars,
                   peer, rateVars, loop, attempts, rate_limited_count, result,
                   caller, total_requests>>

\* main(): the sleep after a failure is over, the loop tests retry_count.
SupervisorBackoff ==
    /\ script = "improved"
    /\ pc = "backoff"
    /\ Local
    /\ pc' = "supervise"
    /\ UNCHANGED <<catalogVars, remoteVars, ledgerVars, fetchVars, idx,
                   localVars, runVars, swaps, partial, killedProcessed,
                   otherVars>>

\* main(): run() has returned; sleep an hour, reset retry_count.
SupervisorCompleted ==
    /\ script = "improved"
    /\ pc = "done"
    /\ Local
    /\ retry_count' = 0
    /\ lastOutcome' = "completed"
    /\ delay' = HourSleep
    /\ pc' = "supervise"
    /\ UNCHANGED <<catalogVars, remoteVars, ledgerVars, fetchVars, idx,
                   localVars, runVars, swaps, partial, killedProcessed,
                   to_swap, to_update, interrupted, torn, limit, reportVars,
                   peer, rateVars, loop, attempts, rate_limited_count, result,
                   caller, total_requests>>

\* Somebody removes the progress file that cannot be parsed.
LedgerRepaired ==
    /\ torn
    /\ pc \in {"off", "backoff", "reraised"}
    /\ Local
    /\ torn' = FALSE
    /\ UNCHANGED <<catalogVars, remoteVars, ledgerVars, fetchVars, idx, pc,
                   localVars, runVars, swaps, partial, killedProcessed,
                   to_swap, to_update, interrupted, limit, reportVars,
                   superVars, rateVars, retryVars>>

\* The supervisor is started on a catalogue whose first product has two
\* images and a cost; the other products have one image and no cost.
InitSupervisor ==
    /\ script = "improved"
    /\ pc = "off"
    /\ origImages = [i \in Items |-> IF i = Catalog[1] THEN <<1, 2>> ELSE <<1>>]
    /\ hasCost = [i \in Items |-> i = Catalog[1]]
    /\ remoteImages = origImages
    /\ remotePrice = [i \in Items |-> "orig"]
    /\ ProcessInit
    /\ PlanIdle
    /\ RateInit
    /\ RetryIdle

NextSupervisor ==
    \/ SupervisorStart
    \/ SupervisorAttempt
    \/ SupervisorRaised
    \/ SupervisorBackoff
    \/ SupervisorCompleted
    \/ LedgerRepaired
    \/ KillInSave
    \/ ImpFetch
    \/ ImpNext
    \/ ImpImgGet
    \/ ImpImgPut1
    \/ ImpImgPut2
    \/ ImpPricePut
    \/ ImpFinal

SpecSupervisor == InitSupervisor /\ [][NextSupervisor]_vars

\* ------------------------------------------- two processes, one progress file
\* The products of a second updater process that uses the same progress
\* file; the first process works on Items.
PeerItems == {"q1"}

\* The constructor of the second process: load_progress.
PeerLoad ==
    /\ script \in {"robust", "improved"}
    /\ peer = <<>>
    /\ Local
    /\ peer' = <<disk>>
    /\ UNCHANGED <<catalogVars, remoteVars, ledgerVars, fetchVars, idx, pc,
                   localVars, runVars, swaps, partial, killedProcessed,
                   to_swap, to_update, interrupted, torn, limit, reportVars,
                   retry_count, rateVars, retryVars>>

\* The second process has changed one of its products and records it:
\* save_progress writes the sets that this process holds in memory.
PeerSave ==
    /\ script \in {"robust", "improved"}
    /\ peer # <<>>
    /\ Local
    /\ \E j \in PeerItems \ peer[1].processed :
        /\ peer' = <<[peer[1] EXCEPT !.processed = @ \cup {j}]>>
        /\ disk' = peer'[1]
    /\ UNCHANGED <<catalogVars, remoteVars, mem, fetchVars, idx, pc, localVars,
                   runVars, swaps, partial, killedProcessed, to_swap,
                   to_update, interrupted, torn, limit, reportVars,
                   retry_count, rateVars, retryVars>>

InitShared ==
    /\ script \in {"robust", "improved"}
    /\ pc = "fetch"
    /\ origImages \in [Items -> {<<1>>, <<1, 2>>}]
    /\ hasCost \in [Items -> BOOLEAN]
    /\ remoteImages = origImages
    /\ remotePrice = [i \in Items |-> "orig"]
    /\ ProcessInit
    /\ PlanIdle
    /\ RateInit
    /\ RetryIdle

NextShared ==
    \/ PeerLoad
    \/ PeerSave
    \/ RobustFetch
    \/ RobustNext
    \/ RobustImgGet
    \/ RobustImgPut1
    \/ RobustImgPut2
    \/ RobustImgRecord
    \/ RobustPrice
    \/ RobustPricePut
    \/ RobustPriceRecord
    \/ RobustFinal
    \/ ImpFetch
    \/ ImpNext
    \/ ImpImgGet
    \/ ImpImgPut1
    \/ ImpImgPut2
    \/ ImpPricePut
    \/ ImpFinal

SpecShared == InitShared /\ [][NextShared]_vars

\* ================================================================ claims
LedgerScripts == {"robust", "ultra", "persistent"}

CallPcs == {"fetch", "img_get", "img_put1", "img_put2", "price_put"}

\* The ledger l records the price sub-step of product x as succeeded, under
\* the key the updater uses for x.
LedgerHasPrice(l, x) ==
    IF script = "ultra"
    THEN UltraPriceKey(VariantGid(x)) \in l.prices
    ELSE x \in l.prices

\* C1: in robust, ultra and persistent, a run issues no remote call (product
\* GET, image-position PUT, price PUT) for a product that is in the
\* processed set loaded from the progress file at the start of that run.
C1_NoCallForLoaded ==
    script \in LedgerScripts => \A c \in calls : c.item \notin loaded

\* A finished run that loaded processed products and issued calls for others.
C1_Witness ==
    /\ script \in LedgerScripts
    /\ pc = "done"
    /\ loaded # {}
    /\ calls # {}

\* The state an uninterrupted run ends in when every remote call succeeds.
SwappedOnce == [x \in Items |-> SwapFirstTwo(origImages[x])]

\* The ultra updater keys the price sub-step by UltraPriceKey, which is the
\* same for every product: an uninterrupted run writes one price only.
FirstWithCost(x) ==
    \E k \in 1..MaxItems :
        /\ Catalog[k] = x
        /\ hasCost[x]
        /\ \A j \in 1..(k - 1) : ~hasCost[Catalog[j]]

PriceWritten ==
    [x \in Items |->
        IF script = "ultra"
        THEN IF FirstWithCost(x) THEN "2.20" ELSE "orig"
        ELSE IF hasCost[x]
        THEN IF script = "robust" THEN "2.20" ELSE "1.75"
        ELSE "orig"]

\* C2: resumability under a crash, in robust, ultra and persistent: with
\* every remote call succeeding and no reset or dry run, a relaunched run
\* issues no remote call for a product that was marked processed when the
\* process was killed, and it ends with all products processed and the
\* remote state of an uninterrupted run.
C2_Resumable ==
    (script \in LedgerScripts /\ clean /\ runNo >= 2) =>
        /\ \A c \in calls : c.item \notin killedProcessed
        /\ pc = "done" =>
            /\ disk.processed = Items
            /\ remoteImages = SwappedOnce
            /\ remotePrice = PriceWritten

\* C4: partial-failure isolation, in robust and ultra: a product that ended
\* the previous run with one sub-step succeeded and the other failed gets,
\* in the next apply run without reset, exactly the failed sub-step
\* attempted and keeps the ledger record of the succeeded one.
C4_PartialIsolation ==
    (script \in {"robust", "ultra"} /\ pc = "done" /\ ~dryRun
       /\ Len(products) = MaxItems) =>
        \A x \in Items :
            /\ prevPartial[x] = "price_failed" =>
                /\ Call(x, "price") \in calls
                /\ Call(x, "put1") \notin calls
                /\ Call(x, "put2") \notin calls
                /\ x \in disk.images
            /\ prevPartial[x] = "img_failed" =>
                /\ Call(x, "get") \in calls
                /\ Call(x, "price") \notin calls
                /\ LedgerHasPrice(disk, x)

\* C5: sub-step monotonicity: once the progress file records the image swap
\* (the price update) of product x as succeeded, no image-position PUT (no
\* price PUT) is issued for x, in the same run or in a later run.
C5_SubStepMonotonic ==
    \A x \in Items :
        /\ lastCall \in {Call(x, "put1"), Call(x, "put2")} => x \notin disk.images
        /\ lastCall = Call(x, "price") => ~LedgerHasPrice(disk, x)

\* A later run finished the price sub-step of a product whose image swap
\* the progress file already recorded before that run.
C5_Witness ==
    \E x \in Items :
        /\ runNo = 2
        /\ prevPartial[x] = "price_failed"
        /\ x \in disk.images
        /\ lastCall = Call(x, "price")

\* C6: in robust, ultra and improved, a product is added to the processed
\* set only if every required sub-step of that product succeeded.
C6_ProcessedOnlyIfAllOk ==
    (script \in {"robust", "ultra", "improved"} /\ pc = "next"
       /\ Cur \in mem.processed \ loaded) =>
        imgOk /\ priceOk

\* C7: synchronous write-through, in robust and ultra: whenever a remote
\* call is about to start, the progress file holds every sub-step success
\* and every item completion held in memory.
C7_WriteThrough ==
    (script \in {"robust", "ultra"} /\ pc \in CallPcs) =>
        /\ mem.processed \subseteq disk.processed
        /\ mem.images \subseteq disk.images
        /\ mem.prices \subseteq disk.prices

\* C8: the image swap is safe to invoke repeatedly: with every remote call
\* succeeding, once a swap of a product with at least two images has
\* completed, the remote order is the original order with the first two
\* exchanged, however often the sub-step is invoked again (as after a kill
\* before the ledger write), and a later invocation performs no position
\* write.
C8_SwapIdempotent ==
    \A x \in Items :
        (clean /\ Len(origImages[x]) >= 2 /\ swaps[x] >= 1) =>
            /\ remoteImages[x] = SwapFirstTwo(origImages[x])
            /\ lastCall # Call(x, "put1")

MutatingKinds == {"put1", "put2", "price", "reorder", "meta"}

\* C3: in robust_venture_fix, final_venture_fix and venture_design_updates,
\* a second --apply run started after a first --apply run in which every
\* call succeeded, with nothing else touching the shop or the progress file,
\* issues no mutating remote call (image-position PUT, media reorder, price
\* PUT, metafieldsSet).
C3_SecondRunNoMutation ==
    (clean /\ runNo >= 2) => \A c \in calls : c.kind \notin MutatingKinds

\* C9: with the ultra updater's ceiling of 20 calls per window of 60 s, the
\* number of remote calls issued in any interval [t, t + 60 s) is at most
\* 20, whatever the latency of the calls.  (An interval holding the most
\* calls can be taken to start at a call.)
C9_RateCeiling == winCount <= Ceiling

C11_RunTerminates == <>(pc = "finished")

\* A caller of make_request_persistent is asleep after a tenth failed attempt.
C11_Witness ==
    /\ loop = "make_request_persistent"
    /\ pc = "sleeping"
    /\ result = "none"
    /\ attempts = MaxRetries


\* The answers no repetition can change: a 4xx status other than 429, a
\* validation error.
PermanentOutcomes == {"rejected"}

\* What each retry loop hands its caller when the call has failed.
FailedResults == {"none", "raised", "false"}

\* C12: a permanent error (a 4xx other than 429, a validation error) is
\* returned to the caller as failed after that one attempt: once an attempt
\* has been answered so, the retry loop has returned failure and makes no
\* further attempt of the call.
C12_PermanentNotRetried ==
    lastOutcome \in PermanentOutcomes =>
        pc = "returned" /\ result \in FailedResults


\* What a retry loop returns when it has given up after its last attempt
\* failed transiently (C10).
GaveUpResult ==
    CASE loop = "make_request_persistent" -> "none"
      [] loop \in UltraLoops -> "false"
      [] OTHER -> "raised"

\* C13: the caller can tell giving up from rejection: what
\* make_request_persistent and the ultra retry loops return when the last
\* answer was a permanent error differs from what they return after they
\* have given up on transient failures.
C13_OutcomesDistinguishable ==
    (/\ loop \in {"make_request_persistent"} \cup UltraLoops
     /\ pc = "returned"
     /\ lastOutcome \in PermanentOutcomes)
        => result # GaveUpResult


\* C14: a run whose page fetch finally fails aborts: it goes past the fetch
\* (to process an item, to issue a mutating call, to report that it is
\* complete or that all products are already processed) only with the whole
\* catalogue enumerated, never on a partial or empty enumeration.
C14_FetchFailureAborts ==
    (script \in Scripts /\ pc \notin {"off", "fetch"}) => products = Catalog


\* C15: one item's failure never aborts the batch: when a run of the robust
\* or the ultra updater has ended, its loop has gone through every remaining
\* product, and when an applying run of venture_design_updates has ended,
\* every planned reorder and the planned metafield batch have been sent.
C15_FailureIsolated ==
    /\ (script \in {"robust", "ultra"} /\ pc \in {"off", "done"})
         => idx = Len(remaining)
    /\ (script = "vdu" /\ pc \in {"off", "done"} /\ ~dryRun) =>
         /\ \A k \in 1..Len(to_swap) : Call(to_swap[k][1], "reorder") \in calls
         /\ to_update # <<>> => Call(to_update[1], "meta") \in calls


\* The requests a run sends for product id when each is answered at once:
\* the GET, two position PUTs when it has two images, the price PUT when
\* its variant has a cost.
CallsFor(id) ==
    1 + (IF Len(origImages[id]) >= 2 THEN 2 ELSE 0)
      + (IF hasCost[id] THEN 1 ELSE 0)

RECURSIVE SumCalls(_)
SumCalls(ps) == IF ps = <<>> THEN 0 ELSE CallsFor(Head(ps)) + SumCalls(Tail(ps))

\* The second product has a mutating call to be throttled.
ScenarioApplies == CallsFor(ScenarioCatalog[2]) > 1

\* C16: in the scenario (three products, the second product's mutating call
\* answered 429 once and then served, every other call served at once) the
\* persistent run ends with all three products in the processed set of the
\* progress file, rate_limited_count = 1 and total_requests equal to the
\* HTTP attempts made: the page request, every product's calls and the one
\* throttled attempt.
C16_ThrottledOnceScenario ==
    (pc = "done" /\ ScenarioApplies) =>
        /\ disk.processed = ScenarioIds
        /\ rate_limited_count = 1
        /\ total_requests = 1 + SumCalls(ScenarioCatalog) + 1

\* The scenario's run has ended: the second product had three mutating
\* calls and one attempt was throttled.
C16_Witness ==
    /\ pc = "done"
    /\ CallsFor(ScenarioCatalog[2]) = 4
    /\ rate_limited_count = 1
    /\ remoteImages[ScenarioCatalog[2]] = <<2, 1, 3>>


\* The failures a repetition may cure.
TransientOutcomes == {"429", "error", "timeout", "connection", "request_exception"}

\* The largest backoff without jitter and the largest jitter of a retry loop:
\* 2.0 * 2 ** 6 and uniform(0, 2); max=20 and none.
BackoffCap == IF loop = "make_request_persistent" THEN 2 * Pow2(6) ELSE 20
BackoffJitter == IF loop = "make_request_persistent" THEN 2 ELSE 0

\* C17: over consecutive transient failures of one call (5xx, timeout,
\* connection error, 429, in any mix) the delay slept before the next
\* attempt does not decrease until the cap has been reached, and it never
\* exceeds the cap plus the jitter.
C17_BackoffGrowth ==
    [][(/\ loop \in {"make_request_persistent", "graphql_request"}
        /\ attempts >= 1 /\ attempts' = attempts + 1
        /\ lastOutcome \in TransientOutcomes
        /\ lastOutcome' \in TransientOutcomes
        /\ delay > 0 /\ delay' > 0)
       => /\ delay' >= delay \/ delay >= BackoffCap
          /\ delay' <= BackoffCap + BackoffJitter]_vars


\* The shortest sleep after a 429: 30 + uniform(0, 10) in
\* make_request_persistent, 10 + attempt * 5 in swap_images_robust,
\* 15 + attempt * 5 in update_price_robust.
CooldownMin ==
    CASE loop = "make_request_persistent" -> 30
      [] loop = "swap_images_robust" -> 10
      [] OTHER -> 15

\* C19: a 429 is recorded and followed by a cooldown sleep of at least the
\* fixed minimum, and every sleep after another transient failure of the
\* same retry loop, at any attempt number, is shorter than that minimum.
C19_CooldownDominates ==
    loop \in {"make_request_persistent"} \cup UltraLoops =>
        /\ lastOutcome \in {"429", "throttled"} => delay >= CooldownMin
        /\ (loop = "make_request_persistent" /\ lastOutcome = "429")
             => rate_limited_count >= 1
        /\ lastOutcome \in {"error", "timeout", "connection", "failed"}
             => delay < CooldownMin


\* The positions of the ultra updater at which a remote request is sent.
UltraCallPcs == {CallPosition[p] : p \in DOMAIN CallPosition}

\* C18: in the ultra updater every remote call (page fetch, product GET,
\* each position PUT, price PUT), in every retry attempt, is preceded by
\* exactly one rate_limit_check since the remote call before it: when a
\* request is about to be sent one check has been made, and none is
\* outstanding anywhere else.
C18_AcquireBeforeCall ==
    script = "ultra" =>
        /\ pc \in UltraCallPcs => acquired = 1
        /\ pc \notin UltraCallPcs => acquired = 0

\* The second position PUT of a third attempt is about to be sent.
C18_Witness ==
    /\ script = "ultra"
    /\ pc = "call_put2"
    /\ attempt = UltraMaxRetries - 1
    /\ acquired = 1


\* The ledger l holds a record of product id.
Recorded(l, id) ==
    \/ id \in l.processed \cup l.images \cup l.prices
    \/ l.failed[id] # NoError

\* C20: cancellation: when a cancellation signal arrives during a run, the
\* run ends reporting partial completion rather than an error, and when the
\* signal arrived inside an item the sub-step in flight has completed (its
\* last call has been issued) and the outcome is in the ledger on disk.
C20_CancellationCompletes ==
    interrupted # "none" =>
        /\ pc = "done"
        /\ interrupted \in {"img_put1", "img_put2"} =>
               Call(Cur, "put2") \in calls
        /\ interrupted = "price_put" => Call(Cur, "price") \in calls
        /\ interrupted \in ItemPcs => Recorded(disk, Cur)

\* A run interrupted between the two position PUTs of a product.
C20_Witness ==
    /\ interrupted = "img_put2"
    /\ pc = "done"
    /\ Cur # NoItem

\* C21: when the progress file exists but is unreadable, the run aborts
\* before any remote call, main() ends with the error (it is not swallowed)
\* and the file is not replaced by an empty ledger.
C21_CorruptLedgerFatal ==
    pc \in {"exit_ok", "exit_error"} =>
        /\ pc = "exit_error"
        /\ calls = {}
        /\ torn

\* A start on a torn file that ended in main().
C21_Witness ==
    /\ pc \in {"exit_ok", "exit_error"}
    /\ torn
    /\ runNo = 2

\* What a start without --reset would load as processed.
Loadable == IF torn THEN {} ELSE disk.processed

\* C22: ledger durability: without a reset, across runs and kills at any
\* step, a kill inside save_progress included, every item once persisted as
\* processed stays persisted and loadable as processed.
C22_LedgerDurable == [][Loadable \subseteq Loadable']_vars

\* A kill inside save_progress when the file already listed a product.
C22_Witness ==
    /\ torn
    /\ killedProcessed # {}
    /\ pc = "off"


C24_SwapPostCondition ==
    (pc = "img_mark" /\ Len(origImages[Cur]) >= 2) =>
        /\ remoteImages[Cur][1] = origImages[Cur][2]
        /\ remoteImages[Cur][2] = origImages[Cur][1]
        /\ SubSeq(remoteImages[Cur], 3, Len(remoteImages[Cur])) =
           SubSeq(origImages[Cur], 3, Len(origImages[Cur]))

\* A successful swap of a product with four images.
C24_Witness ==
    /\ pc = "img_mark"
    /\ Len(origImages[Cur]) = 4
    /\ Call(Cur, "put2") \in calls


\* C25: sub-step results are independent across items: in the ultra
\* updater, for every product of an applying run that has a cost and whose
\* price has never been written, update_price_robust issues the price PUT;
\* a price success recorded for another product does not skip it.
C25_PriceIndependent ==
    (/\ script = "ultra"
     /\ pc = "final"
     /\ ~dryRun
     /\ hasCost[Cur]
     /\ remotePrice[Cur] = "orig") =>
        Call(Cur, "price") \in calls

\* The price sub-step of a second product after the price of the first one
\* was written and recorded.
C25_Witness ==
    /\ script = "ultra"
    /\ pc = "final"
    /\ ~dryRun
    /\ idx = 2
    /\ hasCost[Cur]
    /\ remotePrice[remaining[1]] # "orig"
    /\ mem.prices # {}

\* C26: fix_venture_design skips processed products: no media reorder or
\* kostpris write is issued for a product read from
\* logs/venture_processed.json with --resume, and a product changed by an
\* --apply run is listed in that file when the run has ended.
C26_ResumeSkipsProcessed ==
    script = "fix" =>
        /\ \A c \in calls : c.kind \in MutatingKinds => c.item \notin loaded
        /\ (pc = "done" /\ ~dryRun) =>
               \A i \in Items :
                   (Call(i, "reorder") \in calls /\ swaps[i] > 0) =>
                       i \in disk.processed

\* An applying run that has ended after a successful media reorder.
C26_Witness ==
    /\ script = "fix"
    /\ pc = "done"
    /\ ~dryRun
    /\ \E i \in Items : Call(i, "reorder") \in calls /\ swaps[i] > 0


DryRunScripts == {"robust", "persistent", "improved"}

\* C27: a dry run leaves the persisted progress ledger unchanged: no step of
\* a dry run of robust_venture_fix, persistent_venture_fix or
\* improved_venture_fix changes the persisted sets of processed,
\* image-updated and price-updated products.
C27_DryRunKeepsLedger ==
    [][(script \in DryRunScripts /\ dryRun /\ pc \notin {"off", "done"}) =>
           /\ disk'.processed = disk.processed
           /\ disk'.images = disk.images
           /\ disk'.prices = disk.prices]_vars

\* A dry run that has gone through the whole catalogue.
C27_Witness ==
    /\ script \in DryRunScripts
    /\ dryRun
    /\ pc = "done"
    /\ products = Catalog
    /\ disk.processed # {}
    /\ calls = {}


\* C28: whenever the ledger of robust_venture_fix or ultra_robust_venture_fix
\* records the image swap of a product with at least two images as
\* succeeded, the first two images of the product in the shop are its
\* original first two images in exchanged order, also when the success came
\* on a retry after a failure of one of the two position writes.
C28_RecordedSwapIsSwap ==
    script \in {"robust", "ultra"} =>
        \A i \in Items :
            (i \in mem.images /\ Len(origImages[i]) >= 2) =>
                /\ remoteImages[i][1] = origImages[i][2]
                /\ remoteImages[i][2] = origImages[i][1]

\* The ultra updater records a swap that needed more than one attempt.
C28_Witness ==
    /\ script = "ultra"
    /\ runNo = 1
    /\ ~dryRun
    /\ pc = "final"
    /\ Cur \in mem.images
    /\ Len(origImages[Cur]) >= 2
    /\ attempt > 0


\* C29: in robust_venture_fix and ultra_robust_venture_fix no product is at
\* the same time in the processed set and in the failed map of the ledger:
\* recording a product as processed leaves no failure entry for it.
C29_ProcessedNotFailed ==
    script \in {"robust", "ultra"} =>
        \A i \in Items :
            /\ i \in mem.processed => mem.failed[i] = NoError
            /\ i \in disk.processed => disk.failed[i] = NoError

\* A product recorded as processed by a run that follows a run in which
\* one of its sub-steps failed.
C29_Witness ==
    /\ script = "robust"
    /\ runNo = 2
    /\ \E i \in Items : i \in disk.processed /\ prevPartial[i] # "none"


\* C30: enumeration completeness in robust, ultra and persistent: while the
\* pages are fetched the candidate list holds exactly the records of the
\* pages before the cursor, once each and in page order, whatever fetches
\* failed, and the enumeration has ended only with the records of every
\* page, that is when the shop reported no next page.
C30_EnumerationComplete ==
    script \in {"robust", "ultra", "persistent"} =>
        /\ pc = "fetch" =>
               products = SubSeq(Catalog, 1, Min(cursor * PageSize, MaxItems))
        /\ pc \notin {"off", "fetch"} => products = Catalog

\* The persistent updater has the whole catalogue after a failed fetch.
C30_Witness ==
    /\ script = "persistent"
    /\ runNo = 1
    /\ pc = "next"
    /\ idx = 0
    /\ products = Catalog
    /\ ~dryRun
    /\ ~clean


SubStepScripts == {"robust", "ultra", "improved"}

\* C31: in robust, ultra and improved the sub-steps of a product run in the
\* order image swap, price update: no image request follows the price PUT
\* of the product; the price sub-step is attempted even when the image
\* sub-step failed; and when the price PUT is about to be sent the outcome
\* of the image sub-step is in the persisted ledger.
C31_SubStepOrder ==
    (script \in SubStepScripts /\ ~dryRun) =>
        /\ pc \in {"img_get", "img_put1", "img_put2"} =>
               Call(Cur, "price") \notin calls
        /\ (pc = "final" /\ ~imgOk /\ hasCost[Cur]
              /\ ~LedgerHasPrice(mem, Cur)) =>
               Call(Cur, "price") \in calls
        /\ pc = "price_put" =>
               \/ Cur \in disk.images
               \/ disk.failed[Cur] # NoError

\* The price PUT of a product is about to be sent after its image
\* sub-step failed.
C31_Witness ==
    /\ script \in SubStepScripts
    /\ ~dryRun
    /\ pc = "price_put"
    /\ ~imgOk
    /\ Call(Cur, "get") \in calls


\* A sub-step of product i failed in the run that has just ended: the
\* results of the last product are still held by the process, and partial
\* keeps the sub-step that failed alone for the earlier ones.
FailedInRun(i) ==
    /\ \E k \in 1..Len(remaining) : remaining[k] = i
    /\ \/ partial[i] # "none"
       \/ idx >= 1 /\ i = Cur /\ (~imgOk \/ ~priceOk)

\* C32: when a run of robust or ultra has ended, every product of which a
\* sub-step failed in that run has an error text in the persisted ledger
\* and is not in the persisted processed set.
C32_FailuresPersisted ==
    (script \in {"robust", "ultra"} /\ pc = "done") =>
        \A i \in Items :
            FailedInRun(i) =>
                /\ disk.failed[i] # NoError
                /\ i \notin disk.processed

\* A run has ended in which a sub-step of some product failed.
C32_Witness ==
    /\ script \in {"robust", "ultra"}
    /\ pc = "done"
    /\ \E i \in Items : FailedInRun(i)

FailingResponses == {"throttled", "error"}

\* C33: in the ultra updater, at the rate_limit_check that follows a 429
\* or a response that is not ok the consecutive-failure counter is above
\* zero, so that the check, when it neither resets nor sleeps out the
\* minute, delays the next call by min(5, 0.5 * consecutive_failures) plus
\* jitter; and the counter goes back to zero only with a call that
\* succeeded.
C33_FailureBackoff ==
    [][/\ (pc = "check" /\ pc' = "call"
             /\ lastOutcome \in FailingResponses) =>
              /\ consecutive_failures > 0
              /\ requests_this_minute' # 1 =>
                     clock' = clock + FailureDelay(consecutive_failures)
       /\ (consecutive_failures > 0 /\ consecutive_failures' = 0) =>
              lastOutcome' = "ok"]_vars

\* A rate_limit_check is about to run after a 429 or a response that was
\* not ok.
C33_Witness ==
    /\ script = "ultra"
    /\ pc = "check"
    /\ lastOutcome \in FailingResponses
    /\ lastCall.kind \in UltraKinds


\* C34: the per-minute request counter of the ultra updater stays in
\* 0..20 for every sequence of rate_limit_check calls and elapsed times,
\* a check made exactly 60 seconds after last_minute_reset included.
C34_CounterInRange == requests_this_minute \in 0..Ceiling

\* A check has run exactly one minute after last_minute_reset.
C34_Witness ==
    /\ pc = "call"
    /\ last_minute_reset = 0
    /\ clock \in {WindowTicks + d : d \in BaseDelays}
    /\ requests_this_minute > 1

\* The products that are planned for a change or queued for processing.
PlannedItems ==
    {to_swap[k][1] : k \in 1..Len(to_swap)}
        \cup {to_update[k] : k \in 1..Len(to_update)}
        \cup {remaining[k] : k \in 1..Len(remaining)}

MutatedItems == {c.item : c \in {d \in calls : d.kind \in MutatingKinds}}

\* C35: in final_venture_fix, fix_venture_design, ultra_robust_venture_fix
\* and venture_design_updates a run with --limit N, N > 0, plans at most N
\* products and sends mutating calls for at most N products, whatever the
\* pages hold, a first page with more than N products included.
C35_LimitRespected ==
    limit > 0 =>
        /\ Cardinality(PlannedItems) <= limit
        /\ Cardinality(MutatedItems) <= limit

\* A limited run whose first page filled the list up to the limit, below
\* the size of the catalogue, has sent a mutating call.
C35_Witness ==
    /\ limit > 0
    /\ cursor = 0
    /\ Len(products) = limit
    /\ limit < MaxItems
    /\ MutatedItems # {}


\* The numbers printed at the end of an applying run.
ReportedSwaps == IF script = "final" THEN swapped ELSE Len(to_swap)

ReportedWrites == updated

\* The changes that the shop accepted in the first run.
AcceptedSwaps == Cardinality({i \in Items : swaps[i] >= 1})

AcceptedWrites ==
    IF script = "farve"
    THEN Cardinality({i \in Items :
            /\ \E k \in 1..Len(to_update) : to_update[k] = i
            /\ farve[i] = "danish"})
    ELSE Cardinality({i \in Items : remotePrice[i] # "orig"})

\* C36: when an applying run of final_venture_fix, venture_design_updates
\* or translate_farve_metafields has ended, the number of metafield writes
\* it reports equals the number of writes that the shop accepted without
\* userErrors, and so does the number of swapped products.
C36_ReportedIsAccepted ==
    (script \in ReportScripts /\ pc = "done" /\ ~dryRun /\ runNo = 1) =>
        /\ ReportedWrites = AcceptedWrites
        /\ script # "farve" => ReportedSwaps = AcceptedSwaps

\* An applying run has ended after a write that the shop rejected.
C36_Witness ==
    /\ script \in ReportScripts
    /\ pc = "done"
    /\ ~dryRun
    /\ runNo = 1
    /\ ~clean
    /\ lastCall.kind = "meta"


PeerDone == peer # <<>> /\ PeerItems \subseteq peer[1].processed

\* C37: when two updater processes that work on disjoint sets of products
\* and share one progress file have both finished, every product that
\* either of them recorded as processed is in the persisted ledger.
C37_SharedLedgerComplete ==
    (script \in {"robust", "improved"} /\ pc = "done" /\ PeerDone) =>
        (mem.processed \cup peer[1].processed) \subseteq disk.processed

\* Both processes have finished and each has recorded a product.
C37_Witness ==
    /\ script \in {"robust", "improved"}
    /\ pc = "done"
    /\ PeerDone
    /\ mem.processed # {}
    /\ mem.processed \cap PeerItems = {}

\* C38: in main() of railway_start.py retry_count stays in 0..3 and is
\* above zero only after an attempt that raised; an attempt that raises
\* adds one to it, is followed by a sleep of 60 * retry_count seconds when
\* that is below three and by raising again when it is three, and main()
\* raises in no other case; an attempt that completes sets it to zero.
C38_SupervisorRetries ==
    [][/\ retry_count' \in 0..3
       /\ retry_count' > 0 => lastOutcome' = "raised"
       /\ (pc = "supervise" /\ pc' \in {"backoff", "reraised"}) =>
              /\ retry_count' = retry_count + 1
              /\ pc' = "reraised" <=> retry_count' = 3
              /\ pc' = "backoff" => delay' = 60 * retry_count'
       /\ (pc' = "reraised" /\ pc # "reraised") =>
              pc = "supervise" /\ lastOutcome = "raised"
       /\ (pc = "done" /\ pc' = "supervise") => retry_count' = 0]_vars

\* main() has raised again after the third attempt in a row that raised.
C38_Witness ==
    /\ script = "improved"
    /\ pc = "reraised"
    /\ retry_count = 3
    /\ lastOutcome = "raised"

\* Product number k of the enumeration has been through the analysis loop.
Scanned(k) ==
    \/ pc \in {"meta", "done"}
    \/ pc \in {"analyze", "exit_error"} /\ k <= idx

\* C39: in translate_farve_metafields, for every scanned product without a
\* custom.farve metafield the analysis has planned exactly one entry, the
\* creation of the metafield, and has gone on with the run.
C39_MissingIsPlanned ==
    script = "farve" =>
        \A k \in 1..Len(products) :
            (Scanned(k) /\ farve[products[k]] = "missing") =>
                /\ Cardinality({j \in 1..Len(to_update) :
                                    to_update[j] = products[k]}) = 1
                /\ pc # "exit_error"

\* The analysis has scanned a product without the metafield.
C39_Witness ==
    /\ script = "farve"
    /\ idx >= 1
    /\ idx <= Len(products)
    /\ Scanned(idx)
    /\ farve[products[idx]] = "missing"

====
